---- MODULE Spec2Model ----
(***************************************************************************)
(* Model of the Historical-Sales dashboard (src/src/App.jsx): the dataset  *)
(* load paths (dataset selection effect, CSV upload), the date window and  *)
(* the remembered user range, and the derived rolling-12 views.            *)
(*                                                                         *)
(* Representation.                                                         *)
(*   - A "YYYY-MM" string is the pair <<y, m>>; the empty string is        *)
(*     <<0, 0>> and JavaScript null is <<-1, -1>>.                         *)
(*   - A month key is the integer y*100+m; a null key is 0 (the code only  *)
(*     tests keys for falsiness).                                          *)
(*   - A series cell is a tuple: <<>> for "no number" (null or absent      *)
(*     key), <<n>> for the number n, <<num, den>> for the fraction num/den.*)
(*   - Array-valued selections carry no duplicates in the code and are     *)
(*     only tested for membership, so they are sets here.                  *)
(***************************************************************************)
EXTENDS Integers, Sequences, FiniteSets, TLC

\* ---------------------------------------------------------------- bounds
\* Dataset selections and CSV uploads the user makes in a run.
MaxSelects == 1
MaxUploads == 1
\* Months of history in historical_all.csv (enough for one growth value).
MaxMonths == 25

\* ------------------------------------------------------ program constants
ALL == "__ALL__"
DEFAULT_DATASET == "Historical_All"
monthNames == <<"jan","feb","mar","apr","may","jun","jul","aug","sep","oct","nov","dec">>
DIMENSION_COLUMN_NAMES == {"date", "month", "year", "period", "branch"}

\* ------------------------------------------------------- YYYY-MM helpers
EmptyStr == <<0, 0>>
NullStr == <<-1, -1>>
Truthy(s) == s # EmptyStr /\ s # NullStr

\* The double Infinity: above every finite number of the model.  The
\* operations the code can apply to it are spelled out where they occur.
Infinity == 2147483647

ymToKey(y, m) == IF y = Infinity THEN Infinity ELSE y * 100 + m

keyFromStr(s) ==
  IF ~Truthy(s) THEN 0
  ELSE IF s[1] = 0 \/ s[2] = 0 THEN 0
  ELSE ymToKey(s[1], s[2])

strFromYM(y, m) == <<y, m>>

\* The % of the language: the remainder takes the sign of the dividend.
JsRem(a, b) == IF a >= 0 THEN a % b ELSE -((-a) % b)

\* Lines 603-604: Math.floor(key / 100) and key % 100.
\* Math.floor(Infinity / 100) is Infinity and Infinity % 100 is NaN, a
\* falsy month like 0.
KeyToYM(key) ==
  IF key = Infinity THEN <<Infinity, 0>> ELSE <<key \div 100, JsRem(key, 100)>>

\* clampYM without its upper bound.
clampYMNoUpper(s, minS, maxS) ==
  LET k == keyFromStr(s)
      minK == keyFromStr(minS)
      maxK == keyFromStr(maxS)
  IN  IF k = 0 \/ minK = 0 \/ maxK = 0 THEN s
      ELSE IF k < minK THEN minS
      ELSE s
clampYM(s, minS, maxS) ==
  LET k == keyFromStr(s)
      minK == keyFromStr(minS)
      maxK == keyFromStr(maxS)
  IN  IF k = 0 \/ minK = 0 \/ maxK = 0 THEN s
      ELSE IF k < minK THEN minS
      ELSE IF k > maxK THEN maxS
      ELSE s

addMonths(s, delta) ==
  LET total == s[1] * 12 + (s[2] - 1) + delta
  IN  strFromYM(total \div 12, (total % 12) + 1)

\* A function or sequence as a stored value: computed once where it is
\* built, as an array or object is in the code, not at every read.
Stored(f) == f @@ <<>>

\* `const x = v; ... x ...`: v is computed once and F reads the result.
Const(v, F(_)) == CHOOSE y \in {F(x) : x \in {v}} : TRUE

\* let sum = 0; for (...) sum += q[i]
RECURSIVE SumSeq(_, _)
SumSeq(q, n) == IF n = 0 THEN 0 ELSE q[n] + SumSeq(q, n - 1)

Min2(a, b) == IF a < b THEN a ELSE b
Max2(a, b) == IF a > b THEN a ELSE b

\* --------------------------------------------------------- lexed records
\* A cell as PapaParse hands it over with dynamicTyping: a number, a string
\* that did not convert, or null (empty field).
NumCell(n) == [k |-> "num", n |-> n, s |-> ""]
StrCell(s) == [k |-> "str", n |-> 0, s |-> s]
NullCell == [k |-> "null", n |-> 0, s |-> ""]

\* What the string operations of the code yield on the strings that occur
\* in the modelled files: Number(s.trim()), Number(s.replace(/,/g, "")) and
\* s.trim().slice(0, 3).toLowerCase().
StrTable ==
  [s \in {"Mar", "APRIL", "may", "1,200", "n/a", "FY24", "Infinity", ""} |->
     CASE s = "Mar"   -> [num |-> <<>>, noComma |-> <<>>, first3 |-> "mar"]
       [] s = "APRIL" -> [num |-> <<>>, noComma |-> <<>>, first3 |-> "apr"]
       [] s = "may"   -> [num |-> <<>>, noComma |-> <<>>, first3 |-> "may"]
       [] s = "1,200" -> [num |-> <<>>, noComma |-> <<1200>>, first3 |-> "1,2"]
       [] s = "n/a"   -> [num |-> <<>>, noComma |-> <<>>, first3 |-> "n/a"]
       [] s = "FY24"  -> [num |-> <<>>, noComma |-> <<>>, first3 |-> "fy2"]
       [] s = "Infinity" ->
            [num |-> <<Infinity>>, noComma |-> <<Infinity>>, first3 |-> "inf"]
       [] s = ""      -> [num |-> <<0>>, noComma |-> <<0>>, first3 |-> ""]]

\* Number(cell): <<>> is NaN.
NumberOf(c) ==
  IF c.k = "num" THEN <<c.n>>
  ELSE IF c.k = "null" THEN <<0>>
  ELSE StrTable[c.s].num

\* Number(String(raw ?? "").replace(/,/g, ""))
ValueOf(c) ==
  IF c.k = "num" THEN <<c.n>>
  ELSE IF c.k = "null" THEN <<0>>
  ELSE StrTable[c.s].noComma

toMonthIndex(c) ==
  IF c.k = "null" THEN <<>>
  ELSE LET n == NumberOf(c)
       IN  IF n # <<>> THEN <<Max2(1, Min2(12, n[1]))>>
           ELSE LET hits == {i \in 1..12 : monthNames[i] = StrTable[c.s].first3}
                IN  IF hits = {} THEN <<>> ELSE <<CHOOSE i \in hits : TRUE>>

\* header.trim().toLowerCase() on the headers that occur in the modelled files.
HeaderLower ==
  [h \in {"Year", "FY", "Period", "Month", "Branch", "Store", "Date",
          "Total", "Parts", "Total Equipment", "Other"} |->
     CASE h = "Year" -> "year"
       [] h = "FY" -> "fy"
       [] h = "Period" -> "period"
       [] h = "Month" -> "month"
       [] h = "Branch" -> "branch"
       [] h = "Store" -> "store"
       [] h = "Date" -> "date"
       [] h = "Total" -> "total"
       [] h = "Parts" -> "parts"
       [] h = "Total Equipment" -> "total equipment"
       [] h = "Other" -> "other"]

\* headers.find(pred): the first matching header, "" when there is none.
FindHeader(headers, syn) ==
  LET idx == {i \in 1..Len(headers) : HeaderLower[headers[i]] \in syn}
  IN  IF idx = {} THEN ""
      ELSE headers[CHOOSE i \in idx : \A j \in idx : i <= j]

\* toMonthIndex(row[periodCol]) || Number(row[periodCol])
MonthOf(c) ==
  Const(toMonthIndex(c), LAMBDA MI : IF MI # <<>> THEN MI ELSE NumberOf(c))

\* One pass of the inner loop of normalizeParsedRows (lines 526-542) for a
\* record and a category column: the Fact it pushes, ok = FALSE when the
\* row or the cell is skipped.
FactCell(row, col, yearCol, periodCol, branchCol) ==
  Const(<<NumberOf(row[yearCol]), MonthOf(row[periodCol]),
          IF branchCol = "" THEN NullCell ELSE row[branchCol],
          ValueOf(row[col])>>,
        LAMBDA t :
          [ok |-> t[1] \notin {<<>>, <<0>>} /\ t[2] \notin {<<>>, <<0>>} /\ t[4] # <<>>,
           Year |-> IF t[1] # <<>> THEN t[1][1] ELSE 0,
           Month |-> IF t[2] # <<>> THEN t[2][1] ELSE 0,
           Category |-> col,
           Value |-> IF t[4] # <<>> THEN t[4][1] ELSE 0,
           Branch |-> IF t[3].k = "num" /\ t[3].n # 0 THEN ToString(t[3].n)
                      ELSE IF t[3].k = "str" THEN t[3].s ELSE ""])

\* The Facts pushed for the records, in record order and column order.
FactsOfRecords(records, catCols, yearCol, periodCol, branchCol) ==
  Const(SelectSeq([i \in 1..(Len(records) * Len(catCols)) |->
                     FactCell(records[((i - 1) \div Len(catCols)) + 1],
                              catCols[((i - 1) % Len(catCols)) + 1],
                              yearCol, periodCol, branchCol)],
                  LAMBDA f : f.ok),
        LAMBDA kept :
          Stored([i \in 1..Len(kept) |->
                    [Year |-> kept[i].Year, Month |-> kept[i].Month,
                     Category |-> kept[i].Category, Value |-> kept[i].Value,
                     Branch |-> kept[i].Branch]]))

\* A normalizer that reports an empty result as a missing column.
normalizeParsedRowsOneMessage(file) ==
  Const(<<FindHeader(file.fields, {"year", "yr", "fy", "fiscal year"}),
          FindHeader(file.fields, {"period", "per", "month"}),
          FindHeader(file.fields, {"branch name", "branch", "store", "location"})>>,
    LAMBDA ids :
      IF Len(file.fields) = 0
        THEN [ok |-> FALSE, error |-> "No headers found in CSV.", facts |-> <<>>]
      ELSE IF ids[1] = "" \/ ids[2] = ""
        THEN [ok |-> FALSE, error |-> "Missing Year or Period/Month columns.", facts |-> <<>>]
      ELSE Const(FactsOfRecords(
                   file.data,
                   SelectSeq(file.fields,
                             LAMBDA h : /\ h \notin {ids[1], ids[2], ids[3]}
                                        /\ HeaderLower[h] \notin DIMENSION_COLUMN_NAMES),
                   ids[1], ids[2], ids[3]),
             LAMBDA parsed :
               IF Len(parsed) = 0
               THEN [ok |-> FALSE, error |-> "Missing Year or Period/Month columns.",
                     facts |-> <<>>]
               ELSE [ok |-> TRUE, error |-> "", facts |-> parsed]))
\* normalizeParsedRows: [ok |-> TRUE, facts |-> ...] or the thrown error.
normalizeParsedRows(file) ==
  Const(<<FindHeader(file.fields, {"year", "yr", "fy", "fiscal year"}),
          FindHeader(file.fields, {"period", "per", "month"}),
          FindHeader(file.fields, {"branch name", "branch", "store", "location"})>>,
    LAMBDA ids :
      IF Len(file.fields) = 0
        THEN [ok |-> FALSE, error |-> "No headers found in CSV.", facts |-> <<>>]
      ELSE IF ids[1] = "" \/ ids[2] = ""
        THEN [ok |-> FALSE, error |-> "Missing Year or Period/Month columns.", facts |-> <<>>]
      ELSE Const(FactsOfRecords(
                   file.data,
                   SelectSeq(file.fields,
                             LAMBDA h : /\ h \notin {ids[1], ids[2], ids[3]}
                                        /\ HeaderLower[h] \notin DIMENSION_COLUMN_NAMES),
                   ids[1], ids[2], ids[3]),
             LAMBDA parsed :
               IF Len(parsed) = 0
               THEN [ok |-> FALSE, error |-> "No valid rows found in CSV.", facts |-> <<>>]
               ELSE [ok |-> TRUE, error |-> "", facts |-> parsed]))

\* ------------------------------------------------------- modelled inputs
\* The CSV files the run can load, as the lexer returns them (meta.fields
\* and data).  historical_all.csv: MaxMonths consecutive months from 2022-01 for
\* branch 113 with Total = 100, plus rows of a second branch, a row without
\* branch and a row whose period does not parse.
RowAll(y, m, b, parts, total) ==
  [h \in {"Year", "Period", "Branch", "Parts", "Total"} |->
     CASE h = "Year" -> NumCell(y)
       [] h = "Period" -> m
       [] h = "Branch" -> b
       [] h = "Parts" -> parts
       [] h = "Total" -> total]

FileHistoricalAll ==
  [fields |-> <<"Year", "Period", "Branch", "Parts", "Total">>,
   data |-> [i \in 1..MaxMonths |->
               RowAll(2022 + ((i - 1) \div 12), NumCell(((i - 1) % 12) + 1),
                      NumCell(113), NumCell((i * 7) % 5), NumCell(100))]
            \o << RowAll(2023, NumCell(1), NumCell(215), NumCell(5), NumCell(50)),
                  RowAll(2023, StrCell("Mar"), NullCell, StrCell("n/a"), NumCell(7)),
                  RowAll(2023, StrCell("FY24"), NumCell(215), NumCell(9), NumCell(9)) >>]

\* historical_sales.csv: 2023-06 .. 2024-06 without 2023-12 (a calendar
\* gap), other header synonyms, a thousands separator in one cell.
RowSales(y, m, b, other, total) ==
  [h \in {"FY", "Month", "Store", "Other", "Total Equipment"} |->
     CASE h = "FY" -> NumCell(y)
       [] h = "Month" -> m
       [] h = "Store" -> b
       [] h = "Other" -> other
       [] h = "Total Equipment" -> total]

SalesMonths == <<6, 7, 8, 9, 10, 11, 13, 14, 15, 16, 17, 18>>

FileHistoricalSales ==
  [fields |-> <<"FY", "Month", "Store", "Other", "Total Equipment">>,
   data |-> [i \in 1..12 |->
               RowSales(2023 + ((SalesMonths[i] - 1) \div 12),
                        NumCell(((SalesMonths[i] - 1) % 12) + 1),
                        NumCell(215),
                        IF i = 2 THEN StrCell("1,200") ELSE NumCell(i),
                        NumCell(10 * i))]]

RowUpload(y, m, total) ==
  [h \in {"Year", "Period", "Total"} |->
     CASE h = "Year" -> y
       [] h = "Period" -> m
       [] h = "Total" -> total]

\* An uploaded file that normalizes, one without a Year column and one
\* whose rows all lack a usable year.
FileUploadGood ==
  [fields |-> <<"Year", "Period", "Total">>,
   data |-> << RowUpload(NumCell(2024), NumCell(3), NumCell(30)),
               RowUpload(NumCell(2024), StrCell("APRIL"), NumCell(40)),
               RowUpload(NumCell(2024), StrCell("may"), NumCell(50)) >>]

FileUploadNoYear ==
  [fields |-> <<"Date", "Total">>,
   data |-> << [h \in {"Date", "Total"} |-> NumCell(1)] >>]

FileUploadNoRows ==
  [fields |-> <<"Year", "Period", "Total">>,
   data |-> << RowUpload(NullCell, NumCell(3), NumCell(30)),
               RowUpload(NumCell(2024), StrCell("n/a"), NumCell(40)) >>]

\* Cells at the edges of the row checks: periods 13, 0 and -3, a year cell
\* the lexer leaves as the text Infinity, and a year of 0.
FileUploadEdge ==
  [fields |-> <<"Year", "Period", "Total">>,
   data |-> << RowUpload(NumCell(2024), NumCell(13), NumCell(10)),
               RowUpload(NumCell(2024), NumCell(0), NumCell(20)),
               RowUpload(NumCell(2024), NumCell(-3), NumCell(30)),
               RowUpload(StrCell("Infinity"), NumCell(5), NumCell(40)),
               RowUpload(NumCell(0), NumCell(6), NumCell(50)) >>]

\* Months of a year before year 1 followed by a month of 2024.
FileUploadEarly ==
  [fields |-> <<"Year", "Period", "Total">>,
   data |-> << RowUpload(NumCell(-1), NumCell(5), NumCell(10)),
               RowUpload(NumCell(-1), NumCell(6), NumCell(20)),
               RowUpload(NumCell(2024), NumCell(1), NumCell(30)) >>]

\* 24 consecutive months of Total = 100 (the scenario of the spec), and a
\* series with a missing month, negative values and months without a value.
FileFlat24 ==
  [fields |-> <<"Year", "Period", "Total">>,
   data |-> [i \in 1..24 |->
               RowUpload(NumCell(2022 + ((i - 1) \div 12)),
                         NumCell(((i - 1) % 12) + 1), NumCell(100))]]

\* 25 consecutive months whose first twelve sum to exactly 0 in every
\* category: Parts is 0 and then 3, Total alternates 5 and -5 and then is
\* -2, Other is 0 throughout.
RowZero(y, m, parts, total, other) ==
  [h \in {"Year", "Period", "Parts", "Total", "Other"} |->
     CASE h = "Year" -> NumCell(y)
       [] h = "Period" -> NumCell(m)
       [] h = "Parts" -> NumCell(parts)
       [] h = "Total" -> NumCell(total)
       [] h = "Other" -> NumCell(other)]

FileZeroPrior ==
  [fields |-> <<"Year", "Period", "Parts", "Total", "Other">>,
   data |-> [i \in 1..25 |->
               RowZero(2022 + ((i - 1) \div 12), ((i - 1) % 12) + 1,
                       IF i <= 12 THEN 0 ELSE 3,
                       IF i > 12 THEN -2 ELSE IF i % 2 = 1 THEN 5 ELSE -5,
                       0)]]

GapMonths == <<1, 2, 3, 4, 6, 7, 8, 9, 10, 11, 12, 13, 14, 15>>

FileGap ==
  [fields |-> <<"Year", "Period", "Branch", "Parts", "Total">>,
   data |-> [i \in 1..Len(GapMonths) |->
               RowAll(2022 + ((GapMonths[i] - 1) \div 12),
                      NumCell(((GapMonths[i] - 1) % 12) + 1),
                      IF i % 3 = 0 THEN NumCell(215) ELSE NumCell(113),
                      IF i % 4 = 0 THEN StrCell("n/a") ELSE NumCell(i - 5),
                      NumCell(i * i))]]

\* Four records, two of them of the same month, in each of their 24 orders:
\* perm2143.csv holds record 2, then 1, then 4, then 3.
OrderRecords ==
  << RowAll(2023, NumCell(2), NumCell(113), NumCell(1), NumCell(10)),
     RowAll(2022, NumCell(12), NumCell(215), NumCell(2), NumCell(20)),
     RowAll(2023, NumCell(2), NumCell(215), NumCell(3), NumCell(30)),
     RowAll(2022, NumCell(11), NumCell(113), NumCell(4), NumCell(40)) >>

Orders == {p \in [1..4 -> 1..4] : \A i, j \in 1..4 : p[i] = p[j] => i = j}

OrderFileName(p) ==
  "perm" \o ToString(p[1]) \o ToString(p[2]) \o ToString(p[3])
         \o ToString(p[4]) \o ".csv"

OrderFiles == {OrderFileName(p) : p \in Orders}

FileInOrder(name) ==
  Const(CHOOSE p \in Orders : OrderFileName(p) = name,
        LAMBDA p :
          [fields |-> <<"Year", "Period", "Branch", "Parts", "Total">>,
           data |-> [i \in 1..4 |-> OrderRecords[p[i]]]])

DatasetIds == {"Historical_All", "Historical_Sales"}
UploadFiles == {"good.csv", "noyear.csv", "norows.csv", "edge.csv"}

\* datasetFiles: dataset id -> file
datasetFiles ==
  [d \in DatasetIds |->
     IF d = "Historical_All" THEN "historical_all.csv" ELSE "historical_sales.csv"]

\* DATASET_OVERRIDES[...].defaultCategory
defaultCategory ==
  [d \in DatasetIds |-> IF d = "Historical_All" THEN "Total" ELSE "Total Equipment"]

FileTable ==
  [f \in {"historical_all.csv", "historical_sales.csv", "flat24.csv", "gap.csv",
          "zeroprior.csv", "early.csv"}
          \cup UploadFiles \cup OrderFiles |->
     CASE f \in OrderFiles -> FileInOrder(f)
       [] f = "historical_all.csv" -> FileHistoricalAll
       [] f = "flat24.csv" -> FileFlat24
       [] f = "gap.csv" -> FileGap
       [] f = "zeroprior.csv" -> FileZeroPrior
       [] f = "historical_sales.csv" -> FileHistoricalSales
       [] f = "good.csv" -> FileUploadGood
       [] f = "noyear.csv" -> FileUploadNoYear
       [] f = "norows.csv" -> FileUploadNoRows
       [] f = "edge.csv" -> FileUploadEdge
       [] f = "early.csv" -> FileUploadEarly]

\* What Papa.parse + normalizeParsedRows deliver for each file.
ParsedOf == Stored([f \in DOMAIN FileTable |-> normalizeParsedRows(FileTable[f])])

\* ------------------------------------------------------------- the state
VARIABLES
  availableDatasets,   \* TRUE once /dataset-list.json has been applied
  dataset,             \* selected dataset id
  loads,               \* every load started so far, in request order; a
                       \* settled load is replaced by Settled
  rows,                \* the Facts on display: the file whose parsed Fact
                       \* array setRows stored ("" is the empty array);
                       \* Facts are never mutated, Rows is their content
  error,
  selectedCategories,
  allBranches,
  selectedBranches,
  metric,              \* "value" | "r12" | "r12Value"
  dateStart, dateEnd,
  minMonthStr, maxMonthStr,
  userRangeRef,        \* [touched, start, end]
  effectPending,       \* the auto-zoom effect is scheduled for this render
  nSelects, nUploads,  \* selections and uploads made so far
  rowsFrom,            \* history: the load whose Facts are in rows, 0 if none
  lastDatasetReq,      \* history: the latest load started by the load effect,
                       \* and whether its fetch and normalization will succeed
  droppedStale,        \* history: a superseded load settled and was dropped
  lastPick             \* history: the window right after the last explicit
                       \* range operation, <<>> before the first one

vars == <<availableDatasets, dataset, loads, rows, error, selectedCategories,
          allBranches, selectedBranches, metric, dateStart, dateEnd,
          minMonthStr, maxMonthStr, userRangeRef, effectPending, nSelects,
          nUploads, rowsFrom, lastDatasetReq, droppedStale, lastPick>>

\* The part of the state a dataset hydrate writes.
loadedState == <<rows, minMonthStr, maxMonthStr, dateStart, dateEnd,
                 selectedCategories, selectedBranches>>

\* ------------------------------------------------- views of the Fact list
NoRows == ""
FactsOf(f) == IF f = NoRows THEN <<>> ELSE ParsedOf[f].facts
Rows == FactsOf(rows)

SeqToSet(q) == {q[i] : i \in 1..Len(q)}

\* [...new Set(parsed.map(r => r.Category))]: first-appearance order.
CategoriesOf(parsed) ==
  Const({i \in 1..Len(parsed) :
           \A j \in 1..(i - 1) : parsed[j].Category # parsed[i].Category},
        LAMBDA firsts :
          Stored([k \in 1..Cardinality(firsts) |->
                    parsed[CHOOSE i \in firsts :
                             Cardinality({j \in firsts : j < i}) = k - 1].Category]))

BranchesOf(parsed) == {parsed[i].Branch : i \in 1..Len(parsed)} \ {""}

KeysOf(parsed) == {ymToKey(parsed[i].Year, parsed[i].Month) : i \in 1..Len(parsed)}
MinKey(parsed) == CHOOSE k \in KeysOf(parsed) : \A j \in KeysOf(parsed) : k <= j
MaxKey(parsed) == CHOOSE k \in KeysOf(parsed) : \A j \in KeysOf(parsed) : k >= j

\* pickDefaultCategories, with the datasetConfig of the render whose
\* closure runs the hydrate.
pickDefaultCategories(cats, cfg) ==
  IF Len(cats) = 0 THEN {}
  ELSE IF defaultCategory[cfg] \in SeqToSet(cats) THEN {defaultCategory[cfg]}
  ELSE {cats[i] : i \in 1..Min2(2, Len(cats))}

\* The window hydrateFromParsed chooses (lines 610-624).
HydrateWindow(ref, minStr, maxStr) ==
  IF ref.touched /\ (Truthy(ref.start) \/ Truthy(ref.end))
  THEN LET preservedStart == clampYM(IF ref.start = NullStr THEN minStr ELSE ref.start,
                                     minStr, maxStr)
           preservedEnd == clampYM(IF ref.end = NullStr THEN maxStr ELSE ref.end,
                                   minStr, maxStr)
           pk == keyFromStr(preservedStart)
           qk == keyFromStr(preservedEnd)
       IN  IF pk # 0 /\ qk # 0 /\ pk <= qk
           THEN <<preservedStart, preservedEnd>>
           ELSE <<minStr, maxStr>>
  ELSE <<minStr, maxStr>>

\* What lines 601-606, 626 and 632 derive from the parsed Facts alone.
FactsSummary(parsed) ==
  LET minYM == KeyToYM(MinKey(parsed))
      maxYM == KeyToYM(MaxKey(parsed))
  IN  [minStr |-> strFromYM(minYM[1], minYM[2]),
       maxStr |-> strFromYM(maxYM[1], maxYM[2]),
       cats |-> CategoriesOf(parsed),
       branches |-> BranchesOf(parsed),
       years |-> {parsed[i].Year : i \in 1..Len(parsed)}]

SummaryTable(P) ==
  Stored([f \in {g \in DOMAIN P : P[g].ok} |-> FactsSummary(P[f].facts)])

SummaryOf == SummaryTable(ParsedOf)

\* A hydrate that keeps the previous category selection as it is.
HydratedKeepsSelection(file, cfg, ref, prevCats, prevBranches) ==
  Const(SummaryOf[file], LAMBDA sum :
  LET win == HydrateWindow(ref, sum.minStr, sum.maxStr)
      preserved == prevCats \cap SeqToSet(sum.cats)
      valid == prevBranches \cap sum.branches
  IN  [rows |-> file,
       minMonthStr |-> sum.minStr,
       maxMonthStr |-> sum.maxStr,
       dateStart |-> win[1],
       dateEnd |-> win[2],
       selectedCategories |->
         IF prevCats # {} THEN prevCats ELSE pickDefaultCategories(sum.cats, cfg),
       allBranches |-> sum.branches,
       selectedBranches |->
         IF prevBranches = {} THEN {ALL}
         ELSE IF ALL \in prevBranches THEN {ALL}
         ELSE IF valid # {} THEN valid ELSE {ALL}])
\* What hydrateFromParsed(parsed) computes from the ref and the previous
\* selections; cfg is the dataset whose config its closure saw.
Hydrated(file, cfg, ref, prevCats, prevBranches) ==
  Const(SummaryOf[file], LAMBDA sum :
  LET win == HydrateWindow(ref, sum.minStr, sum.maxStr)
      preserved == prevCats \cap SeqToSet(sum.cats)
      valid == prevBranches \cap sum.branches
  IN  [rows |-> file,
       minMonthStr |-> sum.minStr,
       maxMonthStr |-> sum.maxStr,
       dateStart |-> win[1],
       dateEnd |-> win[2],
       selectedCategories |->
         IF preserved # {} THEN preserved ELSE pickDefaultCategories(sum.cats, cfg),
       allBranches |-> sum.branches,
       selectedBranches |->
         IF prevBranches = {} THEN {ALL}
         ELSE IF ALL \in prevBranches THEN {ALL}
         ELSE IF valid # {} THEN valid ELSE {ALL}])

\* hydrateFromParsed as a state change (lines 598-641).
hydrateFromParsed(file, cfg) ==
  \E h \in {Hydrated(file, cfg, userRangeRef, selectedCategories, selectedBranches)} :
      /\ rows' = h.rows
      /\ minMonthStr' = h.minMonthStr
      /\ maxMonthStr' = h.maxMonthStr
      /\ dateStart' = h.dateStart
      /\ dateEnd' = h.dateEnd
      /\ selectedCategories' = h.selectedCategories
      /\ allBranches' = h.allBranches
      /\ selectedBranches' = h.selectedBranches
      /\ error' = ""

\* ---------------------------------------------------------- derived views
\* A branch test that lets a Fact without Branch through.
matchBranchBlankPasses(r, selBranches) ==
  IF ALL \in selBranches THEN TRUE
  ELSE IF r.Branch = "" THEN TRUE
  ELSE r.Branch \in selBranches
\* matchBranch of chartData, monthlyAggAllMonths and branchSummary (lines
\* 671-675, 701-705, 846-850: the same text three times).
matchBranch(r, selBranches) ==
  IF ALL \in selBranches THEN TRUE
  ELSE IF r.Branch = "" THEN FALSE
  ELSE r.Branch \in selBranches

\* (a, b) => a.Year - b.Year || a.Month - b.Month
MonthBefore(a, b) == a[1] < b[1] \/ (a[1] = b[1] /\ a[2] < b[2])

\* An entry that keeps the last Value of a category instead of the sum.
AggEntryLastWins(facts, mine, m) ==
  [Year |-> m[1], Month |-> m[2],
   has |-> {facts[i].Category : i \in mine},
   sum |-> Stored([c \in {facts[i].Category : i \in mine} |->
              facts[CHOOSE i \in mine :
                      /\ facts[i].Category = c
                      /\ \A j \in mine : facts[j].Category = c => j <= i].Value])]
\* One entry of monthlyAggAllMonths: has = the category keys set on the
\* entry, sum = the values accumulated under them.
AggEntry(facts, mine, m) ==
  [Year |-> m[1], Month |-> m[2],
   has |-> {facts[i].Category : i \in mine},
   sum |-> Stored([c \in {facts[i].Category : i \in mine} |->
              SumSeq([i \in 1..Len(facts) |->
                        IF i \in mine /\ facts[i].Category = c
                        THEN facts[i].Value ELSE 0],
                     Len(facts))])]

\* An aggregate left in the order in which the loop met the months.
monthlyAggInsertionOrder(facts, selBranches) ==
  IF Len(facts) = 0 THEN <<>>
  ELSE Const({i \in 1..Len(facts) : matchBranch(facts[i], selBranches)},
         LAMBDA idx :
           Const({i \in idx : \A j \in idx :
                    (facts[j].Year = facts[i].Year /\ facts[j].Month = facts[i].Month)
                      => i <= j},
             LAMBDA firsts :
               Stored([k \in 1..Cardinality(firsts) |->
                 Const(CHOOSE i \in firsts :
                         Cardinality({j \in firsts : j < i}) = k - 1,
                   LAMBDA f :
                     AggEntry(facts,
                              {i \in idx : /\ facts[i].Year = facts[f].Year
                                           /\ facts[i].Month = facts[f].Month},
                              <<facts[f].Year, facts[f].Month>>))])))
\* monthlyAggAllMonths: one entry per month with a matching Fact, in
\* ascending order of (Year, Month).
monthlyAggAllMonths(facts, selBranches) ==
  IF Len(facts) = 0 THEN <<>>
  ELSE Const({i \in 1..Len(facts) : matchBranch(facts[i], selBranches)},
         LAMBDA idx :
           Const({<<facts[i].Year, facts[i].Month>> : i \in idx},
             LAMBDA months :
               Stored([k \in 1..Cardinality(months) |->
                 Const(CHOOSE m \in months :
                         Cardinality({o \in months : MonthBefore(o, m)}) = k - 1,
                   LAMBDA m :
                     AggEntry(facts,
                              {i \in idx : /\ facts[i].Year = m[1]
                                           /\ facts[i].Month = m[2]},
                              m))])))

\* The aggregate of a stored Fact array.  matchBranch reads the selection
\* only through ALL and through the branches that occur in the Facts, so the
\* memo of the code is kept per file and per such selection.
EffectiveSelection(file, selBranches) ==
  IF ALL \in selBranches THEN {ALL} ELSE selBranches \cap SummaryOf[file].branches

AggTable(P, S) ==
  Stored([f \in DOMAIN S |->
            Stored([k \in {{ALL}} \cup SUBSET S[f].branches |->
                      monthlyAggAllMonths(P[f].facts, k)])])

AggOf == AggTable(ParsedOf, SummaryOf)

monthlyAggOf(file, selBranches) ==
  IF file = NoRows THEN <<>> ELSE AggOf[file][EffectiveSelection(file, selBranches)]

\* Number(A[j][cat] || 0)
AggValue(e, cat) == IF cat \in e.has THEN e.sum[cat] ELSE 0

\* A window that misses its oldest month.
WindowSumShort(A, cat, lo, hi) ==
  SumSeq([j \in 1..(hi - lo) |-> AggValue(A[lo + 1 + j], cat)], hi - lo)
\* Sum of cat over the array positions lo..hi (0-based, as in the code).
WindowSum(A, cat, lo, hi) ==
  SumSeq([j \in 1..(hi - lo + 1) |-> AggValue(A[lo + j], cat)], hi - lo + 1)

\* One cell of r12ValueData at 0-based position i (lines 769-779).
R12ValueCell(A, cat, i) ==
  IF i < 11 THEN <<>>
  ELSE <<WindowSum(A, cat, i - 11, i)>>

\* A growth cell that starts one position early.
R12GrowthCellEarly(A, cat, i) ==
  IF i < 22 THEN <<>>
  ELSE LET curr12 == WindowSum(A, cat, i - 11, i)
           prev12 == WindowSum(A, cat, Max2(0, i - 23), i - 12)
       IN  IF prev12 # 0 THEN <<curr12 - prev12, prev12>> ELSE <<>>
\* A growth cell that divides whatever the prior sum is.
R12GrowthCellDivides(A, cat, i) ==
  IF i < 23 THEN <<>>
  ELSE <<WindowSum(A, cat, i - 11, i) - WindowSum(A, cat, i - 23, i - 12),
         WindowSum(A, cat, i - 23, i - 12)>>
\* A growth cell whose prior window overlaps the current one by a month.
R12GrowthCellOverlap(A, cat, i) ==
  IF i < 23 THEN <<>>
  ELSE LET curr12 == WindowSum(A, cat, i - 11, i)
           prev12 == WindowSum(A, cat, i - 22, i - 11)
       IN  IF prev12 # 0 THEN <<curr12 - prev12, prev12>> ELSE <<>>
\* One cell of r12Data at 0-based position i (lines 732-743).
R12GrowthCell(A, cat, i) ==
  IF i < 23 THEN <<>>
  ELSE LET curr12 == WindowSum(A, cat, i - 11, i)
           prev12 == WindowSum(A, cat, i - 23, i - 12)
       IN  IF prev12 # 0 THEN <<curr12 - prev12, prev12>> ELSE <<>>

\* The unclipped series ("data" in r12ValueData and in r12Data).
r12ValueFull(A, selCats) ==
  IF Len(A) = 0 \/ selCats = {} THEN <<>>
  ELSE [k \in 1..Len(A) |->
          [Year |-> A[k].Year, Month |-> A[k].Month,
           vals |-> [c \in selCats |-> R12ValueCell(A, c, k - 1)]]]

r12GrowthFull(A, selCats) ==
  IF Len(A) = 0 \/ selCats = {} THEN <<>>
  ELSE [k \in 1..Len(A) |->
          [Year |-> A[k].Year, Month |-> A[k].Month,
           vals |-> [c \in selCats |-> R12GrowthCell(A, c, k - 1)]]]

\* A range test that does not compare the two keys.
HasRangeUnordered(ds, de) ==
  keyFromStr(ds) # 0 /\ keyFromStr(de) # 0
\* hasRange of the views: both keys set and start <= end.
HasRange(ds, de) ==
  keyFromStr(ds) # 0 /\ keyFromStr(de) # 0 /\ keyFromStr(ds) <= keyFromStr(de)

\* A display that is never clipped.
ClipToWindowNever(data, ds, de) == data
\* Display clipped to the current date window (lines 747-756, 783-791).
ClipToWindow(data, ds, de) ==
  IF HasRange(ds, de)
  THEN SelectSeq(data, LAMBDA d : /\ ymToKey(d.Year, d.Month) >= keyFromStr(ds)
                                  /\ ymToKey(d.Year, d.Month) <= keyFromStr(de))
  ELSE data

\* A rolling value computed on the months of the window only.
r12ValueDataClipFirst(file, selBranches, selCats, ds, de) ==
  r12ValueFull(ClipToWindow(monthlyAggOf(file, selBranches), ds, de), selCats)
r12ValueData(file, selBranches, selCats, ds, de) ==
  ClipToWindow(r12ValueFull(monthlyAggOf(file, selBranches), selCats), ds, de)

r12Data(file, selBranches, selCats, ds, de) ==
  ClipToWindow(r12GrowthFull(monthlyAggOf(file, selBranches), selCats), ds, de)

\* The date test of chartData and of branchSummary (lines 683 and 859):
\* FALSE when the loop skips the Fact.
PassesWindow(r, ds, de) ==
  ~(HasRange(ds, de) /\ (\/ ymToKey(r.Year, r.Month) < keyFromStr(ds)
                         \/ ymToKey(r.Year, r.Month) > keyFromStr(de)))

\* A value view that accumulates every category, selected or not.
chartDataEveryCategory(facts, selCats, selBranches, ds, de) ==
  IF Len(facts) = 0 THEN <<>>
  ELSE Const({i \in 1..Len(facts) : /\ matchBranch(facts[i], selBranches)
                                     /\ PassesWindow(facts[i], ds, de)},
         LAMBDA idx :
           Const({<<facts[i].Year, facts[i].Month>> : i \in idx},
             LAMBDA months :
               Stored([k \in 1..Cardinality(months) |->
                 Const(CHOOSE m \in months :
                         Cardinality({o \in months : MonthBefore(o, m)}) = k - 1,
                   LAMBDA m :
                     AggEntry(facts,
                              {i \in idx : /\ facts[i].Year = m[1]
                                           /\ facts[i].Month = m[2]},
                              m))])))
\* chartData (lines 664-695): one row per month with a Fact that passes
\* the branch and the date test, in ascending order of (Year, Month); has =
\* the category keys set on the row, sum = the values accumulated under them.
chartData(facts, selCats, selBranches, ds, de) ==
  IF Len(facts) = 0 THEN <<>>
  ELSE Const({i \in 1..Len(facts) : /\ matchBranch(facts[i], selBranches)
                                     /\ PassesWindow(facts[i], ds, de)},
         LAMBDA idx :
           Const({<<facts[i].Year, facts[i].Month>> : i \in idx},
             LAMBDA months :
               Stored([k \in 1..Cardinality(months) |->
                 Const(CHOOSE m \in months :
                         Cardinality({o \in months : MonthBefore(o, m)}) = k - 1,
                   LAMBDA m :
                     AggEntry(facts,
                              {i \in idx : /\ facts[i].Year = m[1]
                                           /\ facts[i].Month = m[2]
                                           /\ facts[i].Category \in selCats},
                              m))])))

\* (r.Branch && String(r.Branch).trim()) || "(Blank)"
BranchLabel(r) == IF r.Branch # "" THEN r.Branch ELSE "(Blank)"

\* a.Branch.localeCompare(b.Branch, undefined, { numeric: true }) on the
\* labels that occur with the modelled files, in ascending order.
BranchOrder == <<"(Blank)", "113", "215">>

\* Sum of the Values of the Facts at the positions in idx.
SumValues(facts, idx) ==
  SumSeq([i \in 1..Len(facts) |-> IF i \in idx THEN facts[i].Value ELSE 0],
         Len(facts))

\* A summary whose grand total also counts the unselected categories.
branchSummaryGrandEveryCategory(facts, selCats, selBranches, ds, de) ==
  IF Len(facts) = 0 \/ selCats = {}
  THEN [rows |-> <<>>, totals |-> <<>>, grand |-> <<>>]
  ELSE Const({i \in 1..Len(facts) : /\ matchBranch(facts[i], selBranches)
                                     /\ PassesWindow(facts[i], ds, de)
                                     /\ facts[i].Category \in selCats},
         LAMBDA idx :
           [rows |->
              Const(SelectSeq(BranchOrder,
                              LAMBDA b : \E i \in idx : BranchLabel(facts[i]) = b),
                LAMBDA labels :
                  Stored([k \in 1..Len(labels) |->
                    [Branch |-> labels[k],
                     sums |-> Stored([c \in selCats |->
                                SumValues(facts, {i \in idx :
                                  /\ BranchLabel(facts[i]) = labels[k]
                                  /\ facts[i].Category = c})]),
                     total |-> SumValues(facts, {i \in idx :
                                  BranchLabel(facts[i]) = labels[k]})]])),
            totals |-> Stored([c \in selCats |->
                         SumValues(facts, {i \in idx : facts[i].Category = c})]),
            grand |-> <<SumValues(facts, {i \in 1..Len(facts) :
                          /\ matchBranch(facts[i], selBranches)
                          /\ PassesWindow(facts[i], ds, de)})>>])
\* A summary over every month, whatever the window.
branchSummaryWholeHistory(facts, selCats, selBranches, ds, de) ==
  IF Len(facts) = 0 \/ selCats = {}
  THEN [rows |-> <<>>, totals |-> <<>>, grand |-> <<>>]
  ELSE Const({i \in 1..Len(facts) : /\ matchBranch(facts[i], selBranches)
                                     /\ facts[i].Category \in selCats},
         LAMBDA idx :
           [rows |->
              Const(SelectSeq(BranchOrder,
                              LAMBDA b : \E i \in idx : BranchLabel(facts[i]) = b),
                LAMBDA labels :
                  Stored([k \in 1..Len(labels) |->
                    [Branch |-> labels[k],
                     sums |-> Stored([c \in selCats |->
                                SumValues(facts, {i \in idx :
                                  /\ BranchLabel(facts[i]) = labels[k]
                                  /\ facts[i].Category = c})]),
                     total |-> SumValues(facts, {i \in idx :
                                  BranchLabel(facts[i]) = labels[k]})]])),
            totals |-> Stored([c \in selCats |->
                         SumValues(facts, {i \in idx : facts[i].Category = c})]),
            grand |-> <<SumValues(facts, idx)>>])
\* branchSummary (lines 838-881).  rows: one record per label, Branch, the
\* per-category sums and __total; totals: the per-category sums; grand: the
\* __total of totals, <<>> when the early return leaves it out.
branchSummary(facts, selCats, selBranches, ds, de) ==
  IF Len(facts) = 0 \/ selCats = {}
  THEN [rows |-> <<>>, totals |-> <<>>, grand |-> <<>>]
  ELSE Const({i \in 1..Len(facts) : /\ matchBranch(facts[i], selBranches)
                                     /\ PassesWindow(facts[i], ds, de)
                                     /\ facts[i].Category \in selCats},
         LAMBDA idx :
           [rows |->
              Const(SelectSeq(BranchOrder,
                              LAMBDA b : \E i \in idx : BranchLabel(facts[i]) = b),
                LAMBDA labels :
                  Stored([k \in 1..Len(labels) |->
                    [Branch |-> labels[k],
                     sums |-> Stored([c \in selCats |->
                                SumValues(facts, {i \in idx :
                                  /\ BranchLabel(facts[i]) = labels[k]
                                  /\ facts[i].Category = c})]),
                     total |-> SumValues(facts, {i \in idx :
                                  BranchLabel(facts[i]) = labels[k]})]])),
            totals |-> Stored([c \in selCats |->
                         SumValues(facts, {i \in idx : facts[i].Category = c})]),
            grand |-> <<SumValues(facts, idx)>>])

\* The auto-zoom effect without the userRangeRef.current.touched return.
AutoZoomTargetIgnoresTouched(m, source, selCats, touched, minS, maxS) ==
  IF m = "value" \/ Len(source) = 0  THEN <<>>
  ELSE Const(source, LAMBDA src :
         Const({i \in 1..Len(src) : \E c \in selCats : src[i].vals[c] # <<>>},
           LAMBDA hits :
             IF hits = {} THEN <<>>
             ELSE LET firstIdx == CHOOSE i \in hits : \A j \in hits : i <= j
                      lastIdx == CHOOSE i \in hits : \A j \in hits : i >= j
                      first == strFromYM(src[firstIdx].Year, src[firstIdx].Month)
                      last == strFromYM(src[lastIdx].Year, src[lastIdx].Month)
                  IN  <<clampYM(first, minS, maxS), clampYM(last, minS, maxS)>>))
\* An auto-fit that starts the window one row after the first row with a
\* number when that row has one too.
AutoZoomTargetPastFirst(m, source, selCats, touched, minS, maxS) ==
  IF m = "value" \/ Len(source) = 0 \/ touched THEN <<>>
  ELSE Const(source, LAMBDA src :
         Const({i \in 1..Len(src) : \E c \in selCats : src[i].vals[c] # <<>>},
           LAMBDA hits :
             IF hits = {} THEN <<>>
             ELSE LET firstHit == CHOOSE i \in hits : \A j \in hits : i <= j
                      firstIdx == IF firstHit + 1 \in hits THEN firstHit + 1 ELSE firstHit
                      lastIdx == CHOOSE i \in hits : \A j \in hits : i >= j
                      first == strFromYM(src[firstIdx].Year, src[firstIdx].Month)
                      last == strFromYM(src[lastIdx].Year, src[lastIdx].Month)
                  IN  <<clampYM(first, minS, maxS), clampYM(last, minS, maxS)>>))
\* The window the auto-zoom effect sets, or <<>> when it returns early
\* (lines 796-819).
AutoZoomTarget(m, source, selCats, touched, minS, maxS) ==
  IF m = "value" \/ Len(source) = 0 \/ touched THEN <<>>
  ELSE Const(source, LAMBDA src :
         Const({i \in 1..Len(src) : \E c \in selCats : src[i].vals[c] # <<>>},
           LAMBDA hits :
             IF hits = {} THEN <<>>
             ELSE LET firstIdx == CHOOSE i \in hits : \A j \in hits : i <= j
                      lastIdx == CHOOSE i \in hits : \A j \in hits : i >= j
                      first == strFromYM(src[firstIdx].Year, src[firstIdx].Month)
                      last == strFromYM(src[lastIdx].Year, src[lastIdx].Month)
                  IN  <<clampYM(first, minS, maxS), clampYM(last, minS, maxS)>>))

\* ------------------------------------------------------------ load paths
\* A load: kind "dataset" (the load effect, lines 884-923) or "upload"
\* (handleFile, lines 549-567); cfg is the dataset whose config the
\* closure of the load saw; resp is what the network or the lexer will
\* answer; pc is the await the load is suspended at.
\*   dataset: "ok", "http" (non-OK response or rejected fetch), "badcsv"
\*            (a body without the required columns)
\*   upload:  "ok", "papaerr" (the error callback of Papa.parse)
DatasetResponses == {"ok", "http", "badcsv"}
UploadInputs ==
  { <<"good.csv", "ok">>, <<"noyear.csv", "ok">>, <<"norows.csv", "ok">>,
    <<"good.csv", "papaerr">> }

NewDatasetLoad(d, resp) ==
  [kind |-> "dataset",
   file |-> IF resp = "badcsv" THEN "noyear.csv" ELSE datasetFiles[d],
   cfg |-> d, pc |-> "fetch", cancelled |-> FALSE, resp |-> resp]

NewUpload(f, resp) ==
  [kind |-> "upload", file |-> f, cfg |-> dataset, pc |-> "parse",
   cancelled |-> FALSE, resp |-> resp]

Settled ==
  [kind |-> "", file |-> "", cfg |-> "", pc |-> "done", cancelled |-> FALSE,
   resp |-> ""]

\* Whether the fetch and the normalization of a load will succeed.
WillSucceed(l) == l.resp = "ok" /\ ParsedOf[l.file].ok

\* The effect cleanup (lines 919-922): cancelled = true; controller.abort().
Cleanup(ls) ==
  [i \in 1..Len(ls) |->
     IF ls[i].kind = "dataset" THEN [ls[i] EXCEPT !.cancelled = TRUE] ELSE ls[i]]

\* A load that never sees its cancellation.
NeverCancelled(l) == FALSE
\* cancelled || controller.signal.aborted (lines 906, 908, 911)
IsCancelled(l) == l.cancelled

Settle(i) == loads' = [loads EXCEPT ![i] = Settled]

Init ==
  /\ availableDatasets = FALSE
  /\ dataset = DEFAULT_DATASET
  /\ loads = <<>>
  /\ rows = NoRows
  /\ error = ""
  /\ selectedCategories = {}
  /\ allBranches = {}
  /\ selectedBranches = {ALL}
  /\ metric = "value"
  /\ dateStart = EmptyStr
  /\ dateEnd = EmptyStr
  /\ minMonthStr = EmptyStr
  /\ maxMonthStr = EmptyStr
  /\ userRangeRef = [touched |-> FALSE, start |-> NullStr, end |-> NullStr]
  /\ effectPending = FALSE
  /\ nSelects = 0
  /\ nUploads = 0
  /\ rowsFrom = 0
  /\ lastDatasetReq = [id |-> 0, ok |-> FALSE]
  /\ droppedStale = FALSE
  /\ lastPick = <<>>

\* Saved preferences a previous session may have left in localStorage
\* (lines 926-929); NoPrefs is an empty store.
NoPrefs ==
  [dataset |-> "", metric |-> "", selectedBranches |-> {},
   dateStart |-> EmptyStr, dateEnd |-> EmptyStr]
SavedPrefs ==
  { NoPrefs,
    [dataset |-> "Historical_Sales", metric |-> "r12Value",
     selectedBranches |-> {"215"}, dateStart |-> <<2023, 9>>, dateEnd |-> <<2024, 2>>] }

\* The dataset list arrives (lines 379-394); the prefs effect (414-445) and
\* the load effect (884-923) run on that render, and the load effect runs
\* again when the prefs picked another dataset.  r1 answers the load of the
\* default dataset, r2 the load of the dataset the prefs picked.
DatasetListLoaded(prefs, r1, r2) ==
  /\ ~availableDatasets
  /\ ~effectPending
  /\ availableDatasets' = TRUE
  /\ metric' = IF prefs.metric # "" THEN prefs.metric ELSE metric
  /\ selectedBranches' =
       IF prefs.selectedBranches # {} THEN prefs.selectedBranches ELSE selectedBranches
  /\ dateStart' = IF Truthy(prefs.dateStart) THEN prefs.dateStart ELSE dateStart
  /\ dateEnd' = IF Truthy(prefs.dateEnd) THEN prefs.dateEnd ELSE dateEnd
  /\ dataset' = IF prefs.dataset \in DatasetIds THEN prefs.dataset ELSE DEFAULT_DATASET
  /\ IF dataset' # dataset
     THEN /\ loads' = Cleanup(loads \o <<NewDatasetLoad(dataset, r1)>>)
                        \o <<NewDatasetLoad(dataset', r2)>>
          /\ lastDatasetReq' = [id |-> Len(loads'),
                                ok |-> WillSucceed(NewDatasetLoad(dataset', r2))]
     ELSE /\ r2 = "ok"
          /\ loads' = loads \o <<NewDatasetLoad(dataset, r1)>>
          /\ lastDatasetReq' = [id |-> Len(loads'),
                                ok |-> WillSucceed(NewDatasetLoad(dataset, r1))]
  /\ error' = ""
  /\ effectPending' = (prefs # NoPrefs)
  /\ UNCHANGED <<rows, selectedCategories, allBranches, minMonthStr, maxMonthStr,
                 userRangeRef, nSelects, nUploads, rowsFrom, droppedStale, lastPick>>

\* The dataset <select> (line 1029) and the load effect it re-runs: the
\* previous effect is cleaned up and a new load starts with setError("").
SelectDataset(d, resp) ==
  /\ availableDatasets
  /\ ~effectPending
  /\ d # dataset
  /\ nSelects < MaxSelects
  /\ nSelects' = nSelects + 1
  /\ dataset' = d
  /\ loads' = Cleanup(loads) \o <<NewDatasetLoad(d, resp)>>
  /\ lastDatasetReq' = [id |-> Len(loads'), ok |-> WillSucceed(NewDatasetLoad(d, resp))]
  /\ error' = ""
  /\ UNCHANGED <<availableDatasets, rows, selectedCategories, allBranches,
                 selectedBranches, metric, dateStart, dateEnd, minMonthStr,
                 maxMonthStr, userRangeRef, effectPending, nUploads, rowsFrom,
                 droppedStale, lastPick>>

\* A superseded load returns without touching the state (lines 906, 908, 911).
dropped ==
  /\ droppedStale' = TRUE
  /\ UNCHANGED <<rows, error, selectedCategories, allBranches, selectedBranches,
                 dateStart, dateEnd, minMonthStr, maxMonthStr, effectPending,
                 rowsFrom>>

\* A catch that also empties rows, as the catch of handleFile does.
loadFailedClearsRows(msg) ==
  /\ error' = msg
  /\ rows' = NoRows
  /\ rowsFrom' = 0
  /\ UNCHANGED <<selectedCategories, allBranches, selectedBranches, dateStart,
                 dateEnd, minMonthStr, maxMonthStr, effectPending, droppedStale>>
\* The catch of loadDatasetFromFile for a load that is still current
\* (lines 912-913).
loadFailed(msg) ==
  /\ error' = msg
  /\ UNCHANGED <<rows, selectedCategories, allBranches, selectedBranches,
                 dateStart, dateEnd, minMonthStr, maxMonthStr, effectPending,
                 rowsFrom, droppedStale>>

\* await fetch(url, {signal}) settles (lines 903-904).
FetchSettled(i) ==
  /\ ~effectPending
  /\ loads[i].kind = "dataset" /\ loads[i].pc = "fetch"
  /\ IF IsCancelled(loads[i])
     THEN Settle(i) /\ dropped
     ELSE IF loads[i].resp = "http"
     THEN Settle(i) /\ loadFailed("Failed to load")
     ELSE /\ loads' = [loads EXCEPT ![i].pc = "text"]
          /\ UNCHANGED <<rows, error, selectedCategories, allBranches,
                         selectedBranches, dateStart, dateEnd, minMonthStr,
                         maxMonthStr, effectPending, rowsFrom, droppedStale>>
  /\ UNCHANGED <<availableDatasets, dataset, metric, userRangeRef, nSelects,
                 nUploads, lastDatasetReq, lastPick>>

\* await resp.text() settles, then the check of line 906 and the call of
\* parseTextDataset, whose Papa.parse of a string completes synchronously.
TextSettled(i) ==
  /\ ~effectPending
  /\ loads[i].kind = "dataset" /\ loads[i].pc = "text"
  /\ IF IsCancelled(loads[i])
     THEN Settle(i) /\ dropped
     ELSE /\ loads' = [loads EXCEPT ![i].pc = "parse"]
          /\ UNCHANGED <<rows, error, selectedCategories, allBranches,
                         selectedBranches, dateStart, dateEnd, minMonthStr,
                         maxMonthStr, effectPending, rowsFrom, droppedStale>>
  /\ UNCHANGED <<availableDatasets, dataset, metric, userRangeRef, nSelects,
                 nUploads, lastDatasetReq, lastPick>>

\* await parseTextDataset(text) settles (lines 907-914).
ParseSettled(i) ==
  /\ ~effectPending
  /\ loads[i].kind = "dataset" /\ loads[i].pc = "parse"
  /\ Settle(i)
  /\ LET res == ParsedOf[loads[i].file]
     IN  IF IsCancelled(loads[i]) THEN dropped
         ELSE IF ~res.ok THEN loadFailed(res.error)
         ELSE /\ hydrateFromParsed(loads[i].file, loads[i].cfg)
              /\ effectPending' = TRUE
              /\ rowsFrom' = i
              /\ UNCHANGED droppedStale
  /\ UNCHANGED <<availableDatasets, dataset, metric, userRangeRef, nSelects,
                 nUploads, lastDatasetReq, lastPick>>

\* handleFile (lines 549-552): Papa.parse(file, ...) starts reading.
handleFile(f, resp) ==
  /\ ~effectPending
  /\ nUploads < MaxUploads
  /\ nUploads' = nUploads + 1
  /\ loads' = loads \o <<NewUpload(f, resp)>>
  /\ UNCHANGED <<availableDatasets, dataset, rows, error, selectedCategories,
                 allBranches, selectedBranches, metric, dateStart, dateEnd,
                 minMonthStr, maxMonthStr, userRangeRef, effectPending, nSelects,
                 rowsFrom, lastDatasetReq, droppedStale, lastPick>>

\* The catch of the complete callback of handleFile (lines 560-563).
uploadRejected(msg) ==
  /\ error' = msg
  /\ rows' = NoRows
  /\ rowsFrom' = 0
  /\ effectPending' = TRUE
  /\ UNCHANGED <<selectedCategories, allBranches, selectedBranches, dateStart,
                 dateEnd, minMonthStr, maxMonthStr>>

\* The complete / error callbacks of handleFile (lines 556-565).
UploadSettled(i) ==
  /\ ~effectPending
  /\ loads[i].kind = "upload" /\ loads[i].pc = "parse"
  /\ Settle(i)
  /\ LET res == ParsedOf[loads[i].file]
     IN  IF loads[i].resp = "papaerr"
         THEN /\ error' = "Papa.parse error"
              /\ UNCHANGED <<rows, selectedCategories, allBranches,
                             selectedBranches, dateStart, dateEnd, minMonthStr,
                             maxMonthStr, effectPending, rowsFrom>>
         ELSE IF ~res.ok THEN uploadRejected(res.error)
         ELSE /\ hydrateFromParsed(loads[i].file, loads[i].cfg)
              /\ effectPending' = TRUE
              /\ rowsFrom' = i
  /\ UNCHANGED <<availableDatasets, dataset, metric, userRangeRef, nSelects,
                 nUploads, lastDatasetReq, droppedStale, lastPick>>

\* ------------------------------------------------------ range operations
\* What the user can type into the From / To month inputs ("" clears it).
UserMonths == {EmptyStr, <<2023, 9>>, <<2024, 3>>}
PresetLengths == {12, 24}

\* The auto-zoom effect re-runs when r12Data / r12ValueData were recomputed.
WindowChanged == dateStart' # dateStart \/ dateEnd' # dateEnd

loadUnchanged ==
  UNCHANGED <<availableDatasets, dataset, loads, rows, error, selectedCategories,
              allBranches, selectedBranches, metric, minMonthStr, maxMonthStr,
              nSelects, nUploads, rowsFrom, lastDatasetReq, droppedStale>>

\* The end onStartChange stores in userRangeRef (line 452).
StoredEndOnStartChange(clamped, ek) == IF ek # 0 THEN dateEnd ELSE clamped
\* The start onEndChange stores in userRangeRef (line 459).
StoredStartOnEndChange(clamped, sk) == IF sk # 0 THEN dateStart ELSE clamped

onStartChange(s) ==
  LET clamped == clampYM(s, minMonthStr, maxMonthStr)
      sk == keyFromStr(clamped)
      ek == keyFromStr(dateEnd)
  IN  /\ ~effectPending
      /\ dateEnd' = IF sk # 0 /\ ek # 0 /\ sk > ek THEN clamped ELSE dateEnd
      /\ dateStart' = clamped
      /\ userRangeRef' = [touched |-> TRUE, start |-> clamped,
                          end |-> StoredEndOnStartChange(clamped, ek)]
      /\ effectPending' = WindowChanged
      /\ lastPick' = <<dateStart', dateEnd'>>
      /\ loadUnchanged

onEndChange(s) ==
  LET clamped == clampYM(s, minMonthStr, maxMonthStr)
      ek == keyFromStr(clamped)
      sk == keyFromStr(dateStart)
  IN  /\ ~effectPending
      /\ dateStart' = IF sk # 0 /\ ek # 0 /\ ek < sk THEN clamped ELSE dateStart
      /\ dateEnd' = clamped
      /\ userRangeRef' = [touched |-> TRUE,
                          start |-> StoredStartOnEndChange(clamped, sk),
                          end |-> clamped]
      /\ effectPending' = WindowChanged
      /\ lastPick' = <<dateStart', dateEnd'>>
      /\ loadUnchanged

\* The options of the Year <select>: "all" (0 here) and the years of rows.
YearOptions == {0} \cup (IF rows = NoRows THEN {} ELSE SummaryOf[rows].years)

SetRange(start, end) ==
  /\ dateStart' = start
  /\ dateEnd' = end
  /\ userRangeRef' = [touched |-> TRUE, start |-> start, end |-> end]
  /\ effectPending' = WindowChanged
  /\ lastPick' = <<start, end>>

NoRange ==
  UNCHANGED <<dateStart, dateEnd, userRangeRef, effectPending, lastPick>>

onYearPick(val) ==
  /\ ~effectPending
  /\ IF val = 0 \/ ~Truthy(minMonthStr) \/ ~Truthy(maxMonthStr)
     THEN NoRange
     ELSE SetRange(clampYM(<<val, 1>>, minMonthStr, maxMonthStr),
                   clampYM(<<val, 12>>, minMonthStr, maxMonthStr))
  /\ loadUnchanged

setPresetAll ==
  /\ ~effectPending
  /\ IF Truthy(minMonthStr) /\ Truthy(maxMonthStr)
     THEN SetRange(minMonthStr, maxMonthStr)
     ELSE NoRange
  /\ loadUnchanged

setPresetLastN(n) ==
  /\ ~effectPending
  /\ IF ~Truthy(maxMonthStr)
     THEN NoRange
     ELSE SetRange(clampYM(addMonths(maxMonthStr, 1 - n), minMonthStr, maxMonthStr),
                   maxMonthStr)
  /\ loadUnchanged

setPresetYTD ==
  /\ ~effectPending
  /\ IF ~Truthy(maxMonthStr)
     THEN NoRange
     ELSE SetRange(clampYM(<<maxMonthStr[1], 1>>, minMonthStr, maxMonthStr),
                   maxMonthStr)
  /\ loadUnchanged

\* ------------------------------------------------ metric and selections
Metrics == {"value", "r12", "r12Value"}

selectionUnchanged ==
  UNCHANGED <<availableDatasets, dataset, loads, rows, error, allBranches,
              dateStart, dateEnd, minMonthStr, maxMonthStr, userRangeRef,
              nSelects, nUploads, rowsFrom, lastDatasetReq, droppedStale, lastPick>>

setMetric(m) ==
  /\ ~effectPending
  /\ m # metric
  /\ metric' = m
  /\ effectPending' = TRUE
  /\ UNCHANGED <<selectedCategories, selectedBranches>>
  /\ selectionUnchanged

\* allCategories (lines 648-661): the category buttons on offer.
allCategories ==
  IF rows = NoRows THEN {}
  ELSE {c \in SeqToSet(SummaryOf[rows].cats) : HeaderLower[c] \notin DIMENSION_COLUMN_NAMES}

toggleCategory(c) ==
  /\ ~effectPending
  /\ selectedCategories' =
       IF c \in selectedCategories THEN selectedCategories \ {c}
       ELSE selectedCategories \cup {c}
  /\ effectPending' = TRUE
  /\ UNCHANGED <<metric, selectedBranches>>
  /\ selectionUnchanged

\* The branch buttons (lines 1311-1319).
\* A branch button that leaves the selection empty when its last branch
\* is removed.
branchClickLeavesEmpty(b) ==
  /\ ~effectPending
  /\ selectedBranches' =
       IF ALL \in selectedBranches THEN {b}
       ELSE IF b \in selectedBranches THEN selectedBranches \ {b}
       ELSE selectedBranches \cup {b}
  /\ effectPending' = TRUE
  /\ UNCHANGED <<metric, selectedCategories>>
  /\ selectionUnchanged
branchClick(b) ==
  /\ ~effectPending
  /\ selectedBranches' =
       IF ALL \in selectedBranches THEN {b}
       ELSE IF b \in selectedBranches
         THEN (IF selectedBranches \ {b} = {} THEN {ALL} ELSE selectedBranches \ {b})
       ELSE selectedBranches \cup {b}
  /\ effectPending' = TRUE
  /\ UNCHANGED <<metric, selectedCategories>>
  /\ selectionUnchanged

\* onBranchesChange (lines 474-478): vals are the selected options of a
\* multi-select offering ALL and the branches of the dataset.
onBranchesChange(vals) ==
  /\ ~effectPending
  /\ selectedBranches' = IF ALL \in vals \/ vals = {} THEN {ALL} ELSE vals
  /\ effectPending' = TRUE
  /\ UNCHANGED <<metric, selectedCategories>>
  /\ selectionUnchanged

\* The region buttons (lines 1259-1286); the empty set is "All (sum)".
Regions == { {}, {"113", "114", "117", "160"}, {"215", "216", "218"} }

regionClick(region) ==
  /\ ~effectPending
  /\ selectedBranches' =
       IF region = {} THEN {ALL}
       ELSE IF region \subseteq selectedBranches
         THEN (IF selectedBranches \ region = {} THEN {ALL} ELSE selectedBranches \ region)
       ELSE (selectedBranches \ {ALL}) \cup region
  /\ effectPending' = TRUE
  /\ UNCHANGED <<metric, selectedCategories>>
  /\ selectionUnchanged

\* ----------------------------------------------------- auto-zoom effect
\* The effect of lines 795-821, run once per render that changed one of
\* its dependencies, before the next event is handled.
autoZoom ==
  LET source == IF metric = "r12"
                THEN r12Data(rows, selectedBranches, selectedCategories, dateStart, dateEnd)
                ELSE IF metric = "r12Value"
                THEN r12ValueData(rows, selectedBranches, selectedCategories, dateStart, dateEnd)
                ELSE <<>>
  IN  /\ effectPending
      /\ \E target \in {AutoZoomTarget(metric, source, selectedCategories,
                                        userRangeRef.touched, minMonthStr,
                                        maxMonthStr)} :
           IF target = <<>>
           THEN UNCHANGED <<dateStart, dateEnd>>
           ELSE /\ dateStart' = target[1]
                /\ dateEnd' = target[2]
      /\ effectPending' = WindowChanged
      /\ UNCHANGED <<availableDatasets, dataset, loads, rows, error,
                     selectedCategories, allBranches, selectedBranches, metric,
                     minMonthStr, maxMonthStr, userRangeRef, nSelects, nUploads,
                     rowsFrom, lastDatasetReq, droppedStale, lastPick>>

\* ------------------------------------------------------- specification
Next ==
  \/ \E p \in SavedPrefs, r1 \in DatasetResponses, r2 \in DatasetResponses :
       DatasetListLoaded(p, r1, r2)
  \/ \E d \in DatasetIds, r \in DatasetResponses : SelectDataset(d, r)
  \/ \E i \in 1..Len(loads) : FetchSettled(i)
  \/ \E i \in 1..Len(loads) : TextSettled(i)
  \/ \E i \in 1..Len(loads) : ParseSettled(i)
  \/ \E u \in UploadInputs : handleFile(u[1], u[2])
  \/ \E i \in 1..Len(loads) : UploadSettled(i)
  \/ \E s \in UserMonths : onStartChange(s)
  \/ \E s \in UserMonths : onEndChange(s)
  \/ \E y \in YearOptions : onYearPick(y)
  \/ setPresetAll
  \/ \E n \in PresetLengths : setPresetLastN(n)
  \/ setPresetYTD
  \/ \E m \in Metrics : setMetric(m)
  \/ \E c \in allCategories : toggleCategory(c)
  \/ \E b \in allBranches : branchClick(b)
  \/ \E g \in Regions : regionClick(g)
  \/ autoZoom

Spec == Init /\ [][Next]_vars

\* The load paths with every answer of the network and the lexer, from an
\* empty preference store.
LoadsUploadInputs ==
  { <<"good.csv", "ok">>, <<"noyear.csv", "ok">>, <<"good.csv", "papaerr">> }

NextLoads ==
  \/ \E r \in DatasetResponses : DatasetListLoaded(NoPrefs, r, "ok")
  \/ \E d \in DatasetIds, r \in DatasetResponses : SelectDataset(d, r)
  \/ \E i \in 1..Len(loads) : FetchSettled(i)
  \/ \E i \in 1..Len(loads) : TextSettled(i)
  \/ \E i \in 1..Len(loads) : ParseSettled(i)
  \/ \E u \in LoadsUploadInputs : handleFile(u[1], u[2])
  \/ \E i \in 1..Len(loads) : UploadSettled(i)
  \/ autoZoom

SpecLoads == Init /\ [][NextLoads]_vars

\* The range operations, the metric, the selections and the auto-zoom
\* effect over dataset swaps whose fetch succeeds.
RangeCategories == {"Total", "Total Equipment"}
RangeBranches == {"113"}

NextRange ==
  \/ \E p \in SavedPrefs : DatasetListLoaded(p, "ok", "ok")
  \/ \E d \in DatasetIds : SelectDataset(d, "ok")
  \/ \E i \in 1..Len(loads) : FetchSettled(i)
  \/ \E i \in 1..Len(loads) : TextSettled(i)
  \/ \E i \in 1..Len(loads) : ParseSettled(i)
  \/ \E s \in UserMonths : onStartChange(s)
  \/ \E s \in UserMonths : onEndChange(s)
  \/ \E y \in YearOptions : onYearPick(y)
  \/ setPresetAll
  \/ \E n \in PresetLengths : setPresetLastN(n)
  \/ setPresetYTD
  \/ \E m \in Metrics : setMetric(m)
  \/ \E c \in allCategories \cap RangeCategories : toggleCategory(c)
  \/ \E b \in allBranches \cap RangeBranches : branchClick(b)
  \/ regionClick({})
  \/ autoZoom

SpecRange == Init /\ [][NextRange]_vars

\* The derived views over the files on display: the state after the upload
\* of one of ViewFiles has hydrated, then the selections, the metric, the
\* window and the auto-zoom effect.
ViewFiles == {"historical_all.csv", "flat24.csv", "gap.csv", "zeroprior.csv"}

InitViewsOf(files) ==
  \E f \in files :
    \E h \in {Hydrated(f, DEFAULT_DATASET,
                        [touched |-> FALSE, start |-> NullStr, end |-> NullStr],
                        {}, {ALL})} :
        /\ availableDatasets = TRUE
        /\ dataset = DEFAULT_DATASET
        /\ loads = <<Settled, Settled>>
        /\ rows = h.rows
        /\ error = ""
        /\ selectedCategories = h.selectedCategories
        /\ allBranches = h.allBranches
        /\ selectedBranches = h.selectedBranches
        /\ metric = "value"
        /\ dateStart = h.dateStart
        /\ dateEnd = h.dateEnd
        /\ minMonthStr = h.minMonthStr
        /\ maxMonthStr = h.maxMonthStr
        /\ userRangeRef = [touched |-> FALSE, start |-> NullStr, end |-> NullStr]
        /\ effectPending = FALSE
        /\ nSelects = 0
        /\ nUploads = 1
        /\ rowsFrom = 2
        /\ lastDatasetReq = [id |-> 1, ok |-> FALSE]
        /\ droppedStale = FALSE
        /\ lastPick = <<>>

InitViews == InitViewsOf(ViewFiles)

NextViews ==
  \/ \E m \in Metrics : setMetric(m)
  \/ \E c \in allCategories : toggleCategory(c)
  \/ \E b \in allBranches : branchClick(b)
  \/ \E g \in Regions : regionClick(g)
  \/ \E s \in UserMonths : onStartChange(s)
  \/ \E s \in UserMonths : onEndChange(s)
  \/ autoZoom

SpecViews == InitViews /\ [][NextViews]_vars

\* The normalizer on both load paths: the dataset files, and uploads of
\* files with month names, unusable rows, a missing column and edge cells.
NormalizerFiles == {"good.csv", "norows.csv", "noyear.csv", "edge.csv", "gap.csv"}

NextNormalize ==
  \/ DatasetListLoaded(NoPrefs, "ok", "ok")
  \/ \E d \in DatasetIds, r \in {"ok", "badcsv"} : SelectDataset(d, r)
  \/ \E i \in 1..Len(loads) : FetchSettled(i)
  \/ \E i \in 1..Len(loads) : TextSettled(i)
  \/ \E i \in 1..Len(loads) : ParseSettled(i)
  \/ \E f \in NormalizerFiles : handleFile(f, "ok")
  \/ \E i \in 1..Len(loads) : UploadSettled(i)
  \/ autoZoom

SpecNormalize == Init /\ [][NextNormalize]_vars

\* Month keys and the month bounds of hydrate: uploads of files whose
\* Facts come in every order, with gaps, and from years before year 1.
KeyFiles == {"good.csv", "gap.csv", "flat24.csv", "early.csv"} \cup OrderFiles

NextKeys ==
  \/ \E f \in KeyFiles : handleFile(f, "ok")
  \/ \E i \in 1..Len(loads) : UploadSettled(i)
  \/ \E c \in allCategories : toggleCategory(c)
  \/ \E s \in UserMonths : onEndChange(s)
  \/ autoZoom

SpecKeys == Init /\ [][NextKeys]_vars

\* The branch selection under every way of changing it: the buttons, the
\* multi-select, a selection restored from saved preferences, and the
\* hydrates of datasets and uploads with other branches or none.
BranchFiles == {"good.csv", "gap.csv"}

NextBranches ==
  \/ \E p \in SavedPrefs : DatasetListLoaded(p, "ok", "ok")
  \/ \E d \in DatasetIds : SelectDataset(d, "ok")
  \/ \E i \in 1..Len(loads) : FetchSettled(i)
  \/ \E i \in 1..Len(loads) : TextSettled(i)
  \/ \E i \in 1..Len(loads) : ParseSettled(i)
  \/ \E f \in BranchFiles : handleFile(f, "ok")
  \/ \E i \in 1..Len(loads) : UploadSettled(i)
  \/ \E b \in allBranches : branchClick(b)
  \/ \E g \in Regions : regionClick(g)
  \/ \E vals \in SUBSET (allBranches \cup {ALL}) : onBranchesChange(vals)
  \/ autoZoom

SpecBranches == Init /\ [][NextBranches]_vars

\* Hydrates over selections made on another dataset: datasets and uploads
\* whose categories and branches overlap, differ or are absent.
HydrateFiles == {"good.csv", "gap.csv"}

NextHydrate ==
  \/ \E p \in SavedPrefs : DatasetListLoaded(p, "ok", "ok")
  \/ \E d \in DatasetIds : SelectDataset(d, "ok")
  \/ \E i \in 1..Len(loads) : FetchSettled(i)
  \/ \E i \in 1..Len(loads) : TextSettled(i)
  \/ \E i \in 1..Len(loads) : ParseSettled(i)
  \/ \E f \in HydrateFiles : handleFile(f, "ok")
  \/ \E i \in 1..Len(loads) : UploadSettled(i)
  \/ \E c \in allCategories : toggleCategory(c)
  \/ \E b \in allBranches : branchClick(b)
  \/ autoZoom

SpecHydrate == Init /\ [][NextHydrate]_vars

\* The views over the same records uploaded in each of their orders.
NextOrder ==
  \/ \E c \in allCategories : toggleCategory(c)
  \/ \E b \in allBranches : branchClick(b)
  \/ onStartChange(<<2022, 12>>)
  \/ autoZoom

InitOrder == InitViewsOf(OrderFiles)

SpecOrder == InitOrder /\ [][NextOrder]_vars

\* The views under a window that no handler produced: a CSV is uploaded
\* before the dataset list arrives, and the prefs effect (lines 428-429)
\* then stores the dates a previous session left in localStorage, whatever
\* they are, over the Facts of the upload.  The fetch of the dataset stays
\* pending.
WindowPrefs ==
  { [dataset |-> "", metric |-> "", selectedBranches |-> {},
     dateStart |-> <<2023, 9>>, dateEnd |-> <<2022, 6>>],
    [dataset |-> "", metric |-> "r12", selectedBranches |-> {"113"},
     dateStart |-> <<2023, 2>>, dateEnd |-> <<2022, 11>>],
    [dataset |-> "", metric |-> "", selectedBranches |-> {},
     dateStart |-> <<2022, 6>>, dateEnd |-> EmptyStr] }

PrefsFiles == {"historical_all.csv", "gap.csv"}

NextPrefs ==
  \/ \E f \in PrefsFiles : handleFile(f, "ok")
  \/ \E i \in 1..Len(loads) : UploadSettled(i)
  \/ \E p \in WindowPrefs : DatasetListLoaded(p, "ok", "ok")
  \/ \E c \in allCategories : toggleCategory(c)
  \/ onStartChange(<<2023, 1>>)
  \/ onEndChange(EmptyStr)
  \/ autoZoom

SpecPrefs == Init /\ [][NextPrefs]_vars

\* Auto-fit from every window an untouched range can have: the window of
\* a hydrate, a window auto-fit has narrowed, and a window restored from
\* saved preferences over the Facts of an earlier upload.
AutoFitFiles == {"historical_all.csv", "zeroprior.csv"}

NextAutoFit ==
  \/ \E f \in AutoFitFiles : handleFile(f, "ok")
  \/ \E i \in 1..Len(loads) : UploadSettled(i)
  \/ \E p \in WindowPrefs : DatasetListLoaded(p, "ok", "ok")
  \/ \E m \in Metrics : setMetric(m)
  \/ \E c \in allCategories : toggleCategory(c)
  \/ autoZoom

SpecAutoFit == Init /\ [][NextAutoFit]_vars

\* Dataset swaps racing one upload of a well-formed file, under the
\* scheduling the runtime gives them: a pending fetch, body read or parse
\* eventually settles and a scheduled effect eventually runs; user events
\* carry no fairness.
NextSwaps ==
  \/ \E r \in {"ok", "http"} : DatasetListLoaded(NoPrefs, r, "ok")
  \/ \E d \in DatasetIds : SelectDataset(d, "ok")
  \/ \E i \in 1..Len(loads) : FetchSettled(i)
  \/ \E i \in 1..Len(loads) : TextSettled(i)
  \/ \E i \in 1..Len(loads) : ParseSettled(i)
  \/ handleFile("good.csv", "ok")
  \/ \E i \in 1..Len(loads) : UploadSettled(i)
  \/ autoZoom

FairSpecSwaps ==
  /\ Init /\ [][NextSwaps]_vars
  /\ WF_vars(\E i \in 1..Len(loads) : FetchSettled(i))
  /\ WF_vars(\E i \in 1..Len(loads) : TextSettled(i))
  /\ WF_vars(\E i \in 1..Len(loads) : ParseSettled(i))
  /\ WF_vars(\E i \in 1..Len(loads) : UploadSettled(i))
  /\ WF_vars(autoZoom)

\* ------------------------------------------------------------ properties
\* A step of load i: one of its awaits settles (a request step appends to
\* loads instead).
StepOfLoad(i) == Len(loads') = Len(loads) /\ loads'[i] # loads[i]

\* A step that hydrates the state from the Facts of a load.
HydrateStep == rowsFrom' # rowsFrom /\ rowsFrom' # 0

\* C1: when the load effect started a load for dataset B after the load for
\* dataset A, no step of A's load writes the loaded state (rows, min / max
\* month, window, categories, branches), in whatever order the two settle.
C1_SupersededDatasetLoadNeverApplied ==
  [][\A i \in 1..Len(loads) :
       (loads[i].kind = "dataset" /\ i # lastDatasetReq.id /\ StepOfLoad(i))
         => (UNCHANGED loadedState /\ UNCHANGED allBranches /\ rowsFrom' # i)]_vars

\* C1 witness: a superseded load settled and was dropped, and the Facts on
\* display are those of the latest dataset load.
C1_Witness ==
  droppedStale /\ rowsFrom # 0 /\ rowsFrom = lastDatasetReq.id

\* C2: last-requested-wins over all load paths, CSV upload included: a load
\* whose result is applied is the load requested last.
C2_LastRequestedWinsOnEveryPath ==
  [][HydrateStep => rowsFrom' = Len(loads)]_vars

\* C3: when the last load requested is a dataset selection that succeeds,
\* rows eventually equal that dataset's Facts and stay so.
C3_EventuallyLastSelectedDataset ==
  <>[]((lastDatasetReq.id # 0 /\ lastDatasetReq.id = Len(loads) /\ lastDatasetReq.ok)
          => Rows = FactsOf(datasetFiles[dataset]))

\* C4: the steps of a current dataset load that fails (fetch rejected,
\* non-OK response, or a body that does not normalize) leave the loaded
\* state as it was, and its last step sets the error message.
C4_FailedDatasetLoadKeepsState ==
  [][\A i \in 1..Len(loads) :
       (loads[i].kind = "dataset" /\ i = lastDatasetReq.id
          /\ ~WillSucceed(loads[i]) /\ StepOfLoad(i))
         => /\ UNCHANGED loadedState
            /\ UNCHANGED allBranches
            /\ (loads'[i].pc = "done" => error' # "")]_vars

\* C4 witness: a dataset load failed while Facts were on display, and they
\* still are.
C4_Witness ==
  /\ error \in {"Failed to load", "Missing Year or Period/Month columns."}
  /\ rows # NoRows
  /\ lastDatasetReq.id # 0 /\ ~lastDatasetReq.ok
  /\ loads[lastDatasetReq.id] = Settled
  /\ nUploads = 0

\* C5: on every load path, upload included, a load that fails leaves the
\* Facts in rows as they were.
C5_FailedLoadKeepsFacts ==
  [][\A i \in 1..Len(loads) :
       (loads[i].pc # "done" /\ ~WillSucceed(loads[i]) /\ StepOfLoad(i))
         => rows' = rows]_vars

\* C6: once a range operation has run, the ref stays touched and the
\* auto-zoom effect (the only step taken while it is scheduled) leaves the
\* window alone.
C6_AutoFitNeverOverridesUserRange ==
  [][lastPick # <<>>
       => /\ userRangeRef.touched /\ userRangeRef'.touched
          /\ (effectPending => UNCHANGED <<dateStart, dateEnd>>)]_vars

\* C6 witness: the user picked a range, a rolling metric is shown, the
\* effect has run, and auto-fit would have chosen another window.
C6_Witness ==
  /\ lastPick # <<>> /\ ~effectPending /\ rows # NoRows /\ metric = "r12Value"
  /\ LET t == AutoZoomTarget(metric,
                 r12ValueData(rows, selectedBranches, selectedCategories,
                              dateStart, dateEnd),
                 selectedCategories, FALSE, minMonthStr, maxMonthStr)
     IN  t # <<>> /\ t # <<dateStart, dateEnd>>

\* C7: a successful load after an explicit range operation that left the
\* window [s, e] sets the window to [clamp(s), clamp(e)] over the months of
\* the new dataset.
C7_UserRangeSurvivesSwap ==
  [][(HydrateStep /\ lastPick # <<>> /\ Truthy(lastPick[1]) /\ Truthy(lastPick[2]))
       => /\ dateStart' = clampYM(lastPick[1], minMonthStr', maxMonthStr')
          /\ dateEnd' = clampYM(lastPick[2], minMonthStr', maxMonthStr')]_vars

AggNow == monthlyAggOf(rows, selectedBranches)
ValueSeriesNow == r12ValueFull(AggNow, selectedCategories)
GrowthSeriesNow == r12GrowthFull(AggNow, selectedCategories)

\* C9: at 0-based position i of the aggregate the rolling-12 value is null
\* for i < 11 and the rolling-12 growth has no number for i < 23.
C9_NotEnoughHistoryGivesNoNumber ==
  /\ \A k \in 1..Len(ValueSeriesNow) : \A c \in selectedCategories :
       (k - 1 < 11) => ValueSeriesNow[k].vals[c] = <<>>
  /\ \A k \in 1..Len(GrowthSeriesNow) : \A c \in selectedCategories :
       (k - 1 < 23) => GrowthSeriesNow[k].vals[c] = <<>>

\* C9 witness: a series long enough to have growth numbers, whose position
\* 23 carries one and whose earlier positions exist.
C9_Witness ==
  /\ metric = "r12" /\ ~effectPending
  /\ Len(GrowthSeriesNow) >= 24
  /\ \E c \in selectedCategories :
       /\ Len(GrowthSeriesNow[24].vals[c]) = 2
       /\ Len(ValueSeriesNow[12].vals[c]) = 1

\* C10: for i >= 11 the rolling-12 value at position i is the sum of the
\* twelve entries at positions i-11 .. i of the aggregate (a missing key
\* counts 0), whatever calendar span they cover; 24 months of 100 give 1200
\* at position 11, and twelve entries that span thirteen calendar months
\* are summed all the same.
C10_RollingValueIsSumOfTwelveEntries ==
  /\ \A k \in 12..Len(ValueSeriesNow) : \A c \in selectedCategories :
       ValueSeriesNow[k].vals[c] =
         << AggValue(AggNow[k - 11], c) + AggValue(AggNow[k - 10], c)
            + AggValue(AggNow[k - 9], c) + AggValue(AggNow[k - 8], c)
            + AggValue(AggNow[k - 7], c) + AggValue(AggNow[k - 6], c)
            + AggValue(AggNow[k - 5], c) + AggValue(AggNow[k - 4], c)
            + AggValue(AggNow[k - 3], c) + AggValue(AggNow[k - 2], c)
            + AggValue(AggNow[k - 1], c) + AggValue(AggNow[k], c) >>
  /\ (rows = "flat24.csv" /\ "Total" \in selectedCategories /\ ALL \in selectedBranches)
       => /\ Len(ValueSeriesNow) = 24
          /\ ValueSeriesNow[12].vals["Total"] = <<1200>>
  /\ (rows = "gap.csv" /\ "Total" \in selectedCategories /\ ALL \in selectedBranches)
       => /\ <<ValueSeriesNow[1].Year, ValueSeriesNow[1].Month>> = <<2022, 1>>
          /\ <<ValueSeriesNow[12].Year, ValueSeriesNow[12].Month>> = <<2023, 1>>
          /\ ValueSeriesNow[12].vals["Total"] = <<650>>

\* C10 witness: the rolling value is on display for a series with a
\* calendar gap, with a category that lacks some months.
C10_Witness ==
  /\ rows = "gap.csv" /\ metric = "r12Value" /\ ~effectPending
  /\ ALL \in selectedBranches
  /\ {"Parts", "Total"} \subseteq selectedCategories
  /\ Len(ValueSeriesNow) >= 12

\* The twelve entries of the aggregate that end at 1-based index k, summed
\* one by one (lines 740 and 741 unrolled).
Sum12(A, c, k) ==
  AggValue(A[k - 11], c) + AggValue(A[k - 10], c) + AggValue(A[k - 9], c)
  + AggValue(A[k - 8], c) + AggValue(A[k - 7], c) + AggValue(A[k - 6], c)
  + AggValue(A[k - 5], c) + AggValue(A[k - 4], c) + AggValue(A[k - 3], c)
  + AggValue(A[k - 2], c) + AggValue(A[k - 1], c) + AggValue(A[k], c)

\* C11: at every 0-based position i >= 23 and for every selected category
\* whose prior12 (positions i-23 .. i-12) is not 0, the growth is the
\* fraction (current12 - prior12) / prior12 with current12 the sum over
\* positions i-11 .. i; 24 months of 100 give growth 0 at position 23.
C11_GrowthIsCurrentOverPriorTwelve ==
  /\ \A k \in 24..Len(GrowthSeriesNow) : \A c \in selectedCategories :
       Sum12(AggNow, c, k - 12) # 0
         => GrowthSeriesNow[k].vals[c] =
              << Sum12(AggNow, c, k) - Sum12(AggNow, c, k - 12),
                 Sum12(AggNow, c, k - 12) >>
  /\ (rows = "flat24.csv" /\ "Total" \in selectedCategories /\ ALL \in selectedBranches)
       => /\ Len(GrowthSeriesNow) = 24
          /\ GrowthSeriesNow[24].vals["Total"] = <<0, 1200>>

\* C11 witness: growth is on display for a history whose current window
\* holds 57 more than its prior window of 1200.
C11_Witness ==
  /\ rows = "historical_all.csv" /\ metric = "r12" /\ ~effectPending
  /\ ALL \in selectedBranches /\ "Total" \in selectedCategories
  /\ Len(GrowthSeriesNow) >= 24
  /\ GrowthSeriesNow[24].vals["Total"] = <<57, 1200>>

\* C12: growth never divides by zero: at every position i >= 23 where the
\* prior12 of a selected category is exactly 0 the growth is null, whatever
\* current12 is, and every growth that is a number has a non-zero divisor.
C12_ZeroPriorGivesNullGrowth ==
  /\ \A k \in 24..Len(GrowthSeriesNow) : \A c \in selectedCategories :
       Sum12(AggNow, c, k - 12) = 0 => GrowthSeriesNow[k].vals[c] = <<>>
  /\ \A k \in 1..Len(GrowthSeriesNow) : \A c \in selectedCategories :
       GrowthSeriesNow[k].vals[c] # <<>> => GrowthSeriesNow[k].vals[c][2] # 0

\* C12 witness: growth is on display at position 23 of a history whose
\* prior12 is 0 in three categories, with current12 positive, negative
\* and zero, while position 24 of the same history has a number.
C12_Witness ==
  /\ rows = "zeroprior.csv" /\ metric = "r12" /\ ~effectPending
  /\ selectedCategories = {"Parts", "Total", "Other"}
  /\ Len(GrowthSeriesNow) = 25
  /\ \A c \in selectedCategories : Sum12(AggNow, c, 12) = 0
  /\ Sum12(AggNow, "Parts", 24) > 0
  /\ Sum12(AggNow, "Total", 24) < 0
  /\ Sum12(AggNow, "Other", 24) = 0
  /\ GrowthSeriesNow[25].vals["Total"] = <<-17, -7>>

\* The two rolling views of the state, as displayed.
ValueViewOut ==
  r12ValueData(rows, selectedBranches, selectedCategories, dateStart, dateEnd)
GrowthViewOut ==
  r12Data(rows, selectedBranches, selectedCategories, dateStart, dateEnd)

\* The positions of a series whose month lies in the window of the state.
InWindow(full) ==
  {k \in 1..Len(full) :
     /\ ymToKey(full[k].Year, full[k].Month) >= keyFromStr(dateStart)
     /\ ymToKey(full[k].Year, full[k].Month) <= keyFromStr(dateEnd)}

\* out is full restricted to the positions in idx, in the same order.
IsRestriction(out, full, idx) ==
  /\ Len(out) = Cardinality(idx)
  /\ \A k \in idx : out[Cardinality({j \in idx : j <= k})] = full[k]

\* C13: with a valid window the rolling-value and the growth outputs are
\* the entries of the full (window-independent) series whose month lies in
\* [start, end], each with the values it has in the full series.
C13_RollingSeriesClippedAfterComputing ==
  HasRange(dateStart, dateEnd)
    => /\ IsRestriction(ValueViewOut, ValueSeriesNow, InWindow(ValueSeriesNow))
       /\ IsRestriction(GrowthViewOut, GrowthSeriesNow, InWindow(GrowthSeriesNow))

\* C13 witness: the user moved the start into the history, and the first
\* displayed month carries a rolling value, which draws on the eleven
\* months before the start.
C13_Witness ==
  /\ metric = "r12Value" /\ ~effectPending /\ userRangeRef.touched
  /\ HasRange(dateStart, dateEnd)
  /\ Len(ValueViewOut) >= 1 /\ Len(ValueViewOut) < Len(ValueSeriesNow)
  /\ ymToKey(ValueViewOut[1].Year, ValueViewOut[1].Month) = keyFromStr(dateStart)
  /\ \E c \in selectedCategories : ValueViewOut[1].vals[c] # <<>>

\* The value view and the branch summary of the state.
ChartNow ==
  chartData(Rows, selectedCategories, selectedBranches, dateStart, dateEnd)
SummaryNow ==
  branchSummary(Rows, selectedCategories, selectedBranches, dateStart, dateEnd)

\* The branch filter as the specification words it, for the selection of
\* the state.
BranchPasses(r) ==
  \/ ALL \in selectedBranches
  \/ (r.Branch # "" /\ r.Branch \in selectedBranches)

MonthsOf(view) == {<<view[k].Year, view[k].Month>> : k \in 1..Len(view)}

\* C14: with ALL in the selection every Fact matches, a Fact without Branch
\* included; with an explicit set a Fact matches iff it has a Branch that is
\* in the set; and the months of the value view, the months of the monthly
\* aggregate and the rows and grand total of the branch summary are those
\* of the Facts this predicate lets through.
C14_BranchFilterSameInEveryView ==
  /\ \A i \in 1..Len(Rows) :
       matchBranch(Rows[i], selectedBranches) <=> BranchPasses(Rows[i])
  /\ MonthsOf(AggNow) =
       {<<Rows[i].Year, Rows[i].Month>> :
          i \in {j \in 1..Len(Rows) : BranchPasses(Rows[j])}}
  /\ MonthsOf(ChartNow) =
       {<<Rows[i].Year, Rows[i].Month>> :
          i \in {j \in 1..Len(Rows) :
                   BranchPasses(Rows[j]) /\ PassesWindow(Rows[j], dateStart, dateEnd)}}
  /\ selectedCategories # {}
       => \A summary \in {SummaryNow} :
          \A kept \in {{j \in 1..Len(Rows) :
                          /\ BranchPasses(Rows[j])
                          /\ PassesWindow(Rows[j], dateStart, dateEnd)
                          /\ Rows[j].Category \in selectedCategories}} :
              /\ summary.grand = <<SumValues(Rows, kept)>>
              /\ {r.Branch : r \in SeqToSet(summary.rows)}
                   = {BranchLabel(Rows[j]) : j \in kept}
              /\ ALL \notin selectedBranches
                   => \A r \in SeqToSet(summary.rows) : r.Branch # "(Blank)"

\* C14 witness: an explicit selection of one branch over Facts that hold a
\* Fact without Branch inside the window: the views show that branch only.
C14_Witness ==
  /\ rows = "historical_all.csv" /\ selectedBranches = {"215"}
  /\ "Total" \in selectedCategories
  /\ \E i \in 1..Len(Rows) :
       /\ Rows[i].Branch = "" /\ Rows[i].Category = "Total"
       /\ PassesWindow(Rows[i], dateStart, dateEnd)
  /\ \E chart \in {ChartNow} : Len(chart) = 1 /\ chart[1].sum["Total"] = 50
  /\ Len(AggNow) = 1
  /\ \E summary \in {SummaryNow} :
       /\ Len(summary.rows) = 1 /\ summary.rows[1].Branch = "215"
       /\ summary.grand = <<50>>

\* The window of the state is invalid: start unset, end unset, or start
\* after end.
WindowInvalid ==
  \/ keyFromStr(dateStart) = 0
  \/ keyFromStr(dateEnd) = 0
  \/ keyFromStr(dateStart) > keyFromStr(dateEnd)

\* The window filter as the specification words it, on a month key.
KeyPasses(k) ==
  WindowInvalid \/ (keyFromStr(dateStart) <= k /\ k <= keyFromStr(dateEnd))

\* C15: a month passes the window filter iff the window is invalid (then
\* no view filters by date) or start <= key <= end, and the value view, the
\* two rolling views and the branch summary all show exactly the months
\* (the Facts, for the summary) that pass.
C15_WindowFilterSameInEveryView ==
  /\ MonthsOf(ChartNow) =
       {<<Rows[i].Year, Rows[i].Month>> :
          i \in {j \in 1..Len(Rows) :
                   /\ matchBranch(Rows[j], selectedBranches)
                   /\ KeyPasses(ymToKey(Rows[j].Year, Rows[j].Month))}}
  /\ MonthsOf(ValueViewOut) =
       {<<ValueSeriesNow[k].Year, ValueSeriesNow[k].Month>> :
          k \in {j \in 1..Len(ValueSeriesNow) :
                   KeyPasses(ymToKey(ValueSeriesNow[j].Year, ValueSeriesNow[j].Month))}}
  /\ MonthsOf(GrowthViewOut) =
       {<<GrowthSeriesNow[k].Year, GrowthSeriesNow[k].Month>> :
          k \in {j \in 1..Len(GrowthSeriesNow) :
                   KeyPasses(ymToKey(GrowthSeriesNow[j].Year, GrowthSeriesNow[j].Month))}}
  /\ selectedCategories # {}
       => SummaryNow.grand =
            <<SumValues(Rows, {j \in 1..Len(Rows) :
                 /\ matchBranch(Rows[j], selectedBranches)
                 /\ KeyPasses(ymToKey(Rows[j].Year, Rows[j].Month))
                 /\ Rows[j].Category \in selectedCategories})>>
  /\ WindowInvalid
       => /\ ValueViewOut = ValueSeriesNow
          /\ GrowthViewOut = GrowthSeriesNow
          /\ Len(ChartNow) = Len(AggNow)

\* C15 witness: Facts on display under a window whose start is after its
\* end, with every view showing all the months of the selection.
C15_Witness ==
  /\ rows # NoRows /\ ~effectPending /\ selectedCategories # {}
  /\ keyFromStr(dateStart) # 0 /\ keyFromStr(dateEnd) # 0
  /\ keyFromStr(dateStart) > keyFromStr(dateEnd)
  /\ Len(ChartNow) > 1 /\ Len(ValueViewOut) = Len(ChartNow)
  /\ Len(GrowthViewOut) = Len(ChartNow)
  /\ SummaryNow.grand # <<0>>

\* The Facts of the state that match the branch filter and belong to the
\* month of an entry.
FactsOfMonth(e) ==
  {i \in 1..Len(Rows) : /\ matchBranch(Rows[i], selectedBranches)
                         /\ Rows[i].Year = e.Year /\ Rows[i].Month = e.Month}

\* C16: the monthly aggregate has exactly one entry per month with a Fact
\* that matches the branch filter, and under each category the sum of the
\* Values of all matching Facts of that month and category, whatever the
\* window and the selected categories are; 100 and 50 in one month give 150.
C16_MonthlyAggregateSumsMatchingFacts ==
  /\ MonthsOf(AggNow) =
       {<<Rows[i].Year, Rows[i].Month>> :
          i \in {j \in 1..Len(Rows) : matchBranch(Rows[j], selectedBranches)}}
  /\ Len(AggNow) = Cardinality(MonthsOf(AggNow))
  /\ \A e \in SeqToSet(AggNow) : \A mine \in {FactsOfMonth(e)} :
       /\ e.has = {Rows[i].Category : i \in mine}
       /\ \A c \in e.has :
            e.sum[c] = SumValues(Rows, {i \in mine : Rows[i].Category = c})
  /\ (rows = "historical_all.csv" /\ ALL \in selectedBranches)
       => /\ <<AggNow[13].Year, AggNow[13].Month>> = <<2023, 1>>
          /\ AggNow[13].sum["Total"] = 150

\* C16 witness: two branches are selected, the window leaves out months of
\* the history and a category is not selected, while the aggregate covers
\* the months outside the window, carries the unselected category and holds
\* 150 for the month with Facts of 100 and 50.
C16_Witness ==
  /\ rows = "historical_all.csv" /\ selectedBranches = {"113", "215"}
  /\ selectedCategories = {"Total"}
  /\ HasRange(dateStart, dateEnd) /\ keyFromStr(dateStart) = 202309
  /\ Len(AggNow) >= 25
  /\ <<AggNow[1].Year, AggNow[1].Month>> = <<2022, 1>>
  /\ "Parts" \in AggNow[1].has
  /\ AggNow[13].sum["Total"] = 150

\* The Facts of the state that pass the branch filter and the window filter
\* and belong to the month of a row.
ShownFactsOfMonth(e) ==
  {i \in 1..Len(Rows) : /\ BranchPasses(Rows[i])
                         /\ KeyPasses(ymToKey(Rows[i].Year, Rows[i].Month))
                         /\ Rows[i].Year = e.Year /\ Rows[i].Month = e.Month}

\* C17: in every row of the value view the category keys are selected
\* categories, namely those with a Fact of the month that passes the branch
\* and the window filter, and each key holds the sum of the Values of these
\* Facts of its category; Facts of unselected categories add to no sum.
C17_ValueViewSumsSelectedCategories ==
  \A e \in SeqToSet(ChartNow) : \A shown \in {ShownFactsOfMonth(e)} :
    /\ e.has \subseteq selectedCategories
    /\ e.has = {Rows[i].Category : i \in shown} \cap selectedCategories
    /\ \A c \in e.has :
         e.sum[c] = SumValues(Rows, {i \in shown : Rows[i].Category = c})

\* C17 witness: one branch and one category are selected under a window
\* that starts inside the history; the first row is the first month of the
\* window and holds that category only, though the month has Facts of
\* another category.
C17_Witness ==
  /\ rows = "historical_all.csv" /\ selectedBranches = {"113"}
  /\ selectedCategories = {"Parts"}
  /\ HasRange(dateStart, dateEnd) /\ keyFromStr(dateStart) = 202309
  /\ \E chart \in {ChartNow} :
       /\ Len(chart) >= 5
       /\ <<chart[1].Year, chart[1].Month>> = <<2023, 9>>
       /\ chart[1].has = {"Parts"} /\ chart[1].sum["Parts"] = 2
       /\ \E i \in ShownFactsOfMonth(chart[1]) : Rows[i].Category = "Total"

\* A view is strictly ascending by MonthKey.
StrictlyAscending(view) ==
  \A j, k \in 1..Len(view) :
    j < k => ymToKey(view[j].Year, view[j].Month) < ymToKey(view[k].Year, view[k].Month)

\* C18: the value view and the monthly aggregate are strictly ascending by
\* MonthKey, hence hold at most one row per MonthKey, in whatever order the
\* Facts arrived.
C18_ViewsAscendingByMonthKey ==
  /\ \A chart \in {ChartNow} : StrictlyAscending(chart)
  /\ \A agg \in {AggNow} : StrictlyAscending(agg)

\* C18 witness: the Facts arrived in descending order of month, followed by
\* Facts of the first month again, and both views run 2022-11, 2022-12,
\* 2023-02.
C18_Witness ==
  /\ rows = "perm1243.csv" /\ ALL \in selectedBranches
  /\ selectedCategories = {"Parts", "Total"}
  /\ Len(Rows) = 8
  /\ ymToKey(Rows[1].Year, Rows[1].Month) > ymToKey(Rows[3].Year, Rows[3].Month)
  /\ ymToKey(Rows[3].Year, Rows[3].Month) > ymToKey(Rows[5].Year, Rows[5].Month)
  /\ ymToKey(Rows[7].Year, Rows[7].Month) = ymToKey(Rows[1].Year, Rows[1].Month)
  /\ ~HasRange(dateStart, dateEnd) \/ keyFromStr(dateStart) = 202211
  /\ \E chart \in {ChartNow} :
       /\ Len(chart) = 3
       /\ <<chart[1].Month, chart[2].Month, chart[3].Month>> = <<11, 12, 2>>
  /\ Len(AggNow) = 3 /\ AggNow[3].sum["Total"] = 40

\* C19: the grand total of the branch summary is the sum of the Values of
\* the Facts that pass the branch, the window and the selected-category
\* filter; it equals the sum of the row totals and the sum of the
\* per-category totals, and each row total is the sum of the row's
\* per-category sums.
C19_BranchSummaryConservation ==
  (rows # NoRows /\ selectedCategories # {})
    => \A summary \in {SummaryNow} : \A cats \in {SummaryOf[rows].cats} :
         /\ summary.grand =
              <<SumValues(Rows, {j \in 1..Len(Rows) :
                   /\ BranchPasses(Rows[j])
                   /\ KeyPasses(ymToKey(Rows[j].Year, Rows[j].Month))
                   /\ Rows[j].Category \in selectedCategories})>>
         /\ summary.grand =
              <<SumSeq([k \in 1..Len(summary.rows) |-> summary.rows[k].total],
                       Len(summary.rows))>>
         /\ selectedCategories \subseteq SeqToSet(cats)
         /\ summary.grand =
              <<SumSeq([k \in 1..Len(cats) |->
                          IF cats[k] \in selectedCategories
                          THEN summary.totals[cats[k]] ELSE 0],
                       Len(cats))>>
         /\ \A r \in SeqToSet(summary.rows) :
              r.total = SumSeq([k \in 1..Len(cats) |->
                                  IF cats[k] \in selectedCategories
                                  THEN r.sums[cats[k]] ELSE 0],
                               Len(cats))

\* C19 witness: two categories are selected over all branches under a
\* window that ends inside the history: the summary has a row for each of
\* the two branches and one for the Facts without Branch, and a category
\* is left out of the 2204 of the grand total.
C19_Witness ==
  /\ rows = "historical_all.csv" /\ ALL \in selectedBranches
  /\ selectedCategories = {"Parts", "Total"}
  /\ HasRange(dateStart, dateEnd) /\ keyFromStr(dateEnd) = 202309
  /\ \E summary \in {SummaryNow} :
       /\ Len(summary.rows) = 3
       /\ summary.rows[1].Branch = "(Blank)" /\ summary.rows[1].total = 7
       /\ summary.rows[3].Branch = "215" /\ summary.rows[3].total = 55
       /\ summary.totals["Parts"] = 47
       /\ summary.grand = <<2204>>

\* C20: every Fact the normalizer emitted has Month in 1..12 and a Year
\* that is a finite non-zero number.
C20_NormalizerInvariant ==
  \A i \in 1..Len(Rows) :
    /\ Rows[i].Month \in 1..12
    /\ Rows[i].Year # 0
    /\ Rows[i].Year # Infinity

\* The period cells of the records of the file whose Facts are on display,
\* each of which toMonthIndex was applied to.
PeriodCellsNow ==
  IF rows = NoRows THEN {}
  ELSE {FileTable[rows].data[i][FindHeader(FileTable[rows].fields,
                                           {"period", "per", "month"})] :
          i \in 1..Len(FileTable[rows].data)}

\* The month parser as the specification words it.
ParseMonthTokenWorded(c) ==
  IF c.k = "num" THEN (IF c.n \in 1..12 THEN <<c.n>> ELSE <<>>)
  ELSE IF c.k = "null" THEN <<>>
  ELSE IF \E i \in 1..12 : monthNames[i] = StrTable[c.s].first3
    THEN <<CHOOSE i \in 1..12 : monthNames[i] = StrTable[c.s].first3>>
  ELSE <<>>

\* C21: the month parser returns n for a numeric token n in 1..12, the
\* month number for a token whose first three letters are those of a month
\* name, and null for every other token, an absent one and a number outside
\* 1..12 included.
C21_ParseMonthToken ==
  \A c \in PeriodCellsNow : toMonthIndex(c) = ParseMonthTokenWorded(c)

\* The row-skip policy as the specification words it, for one record and
\* one category column: the Fact, or <<>> when the row or the cell is
\* skipped.  The month is the parsed token, else the raw number when it is
\* in 1..12.
WordedFact(row, col, yearCol, periodCol, branchCol) ==
  LET Y == NumberOf(row[yearCol])
      M == IF ParseMonthTokenWorded(row[periodCol]) # <<>>
           THEN ParseMonthTokenWorded(row[periodCol])
           ELSE IF /\ NumberOf(row[periodCol]) # <<>>
                   /\ NumberOf(row[periodCol])[1] \in 1..12
             THEN NumberOf(row[periodCol])
           ELSE <<>>
      V == ValueOf(row[col])
      B == IF branchCol = "" THEN NullCell ELSE row[branchCol]
  IN  IF Y = <<>> \/ Y = <<0>> \/ M = <<>> \/ V = <<>> THEN <<>>
      ELSE << [Year |-> Y[1], Month |-> M[1], Category |-> col, Value |-> V[1],
               Branch |-> IF B.k = "num" /\ B.n # 0 THEN ToString(B.n)
                          ELSE IF B.k = "str" THEN B.s ELSE ""] >>

\* The Facts the worded policy produces from a file, in record order and
\* column order.
WordedFacts(file) ==
  LET yearCol == FindHeader(file.fields, {"year", "yr", "fy", "fiscal year"})
      periodCol == FindHeader(file.fields, {"period", "per", "month"})
      branchCol == FindHeader(file.fields, {"branch name", "branch", "store", "location"})
      catCols == SelectSeq(file.fields,
                   LAMBDA h : /\ h \notin {yearCol, periodCol, branchCol}
                              /\ HeaderLower[h] \notin DIMENSION_COLUMN_NAMES)
      cells == [i \in 1..(Len(file.data) * Len(catCols)) |->
                  WordedFact(file.data[((i - 1) \div Len(catCols)) + 1],
                             catCols[((i - 1) % Len(catCols)) + 1],
                             yearCol, periodCol, branchCol)]
      kept == SelectSeq(cells, LAMBDA f : f # <<>>)
  IN  [i \in 1..Len(kept) |-> kept[i][1]]

\* C22: the Facts of a file are exactly those of its rows with a non-zero
\* numeric Year and a Month that yields 1..12, one per category cell that
\* parses as a number; a skipped row or cell takes nothing else with it.
C22_RowSkipPolicy ==
  rows # NoRows => Rows = WordedFacts(FileTable[rows])

\* A step in which the result of normalizeParsedRows for load i is
\* consumed: the parse of an upload completes, or the parse of a dataset
\* load that was not superseded settles.
NormalizedStep(i) ==
  /\ StepOfLoad(i) /\ loads[i].pc = "parse"
  /\ loads[i].resp # "papaerr" /\ ~IsCancelled(loads[i])

\* Both required columns are found in the headers of a file.
ColumnsFound(file) ==
  /\ FindHeader(file.fields, {"year", "yr", "fy", "fiscal year"}) # ""
  /\ FindHeader(file.fields, {"period", "per", "month"}) # ""

\* C23: normalization hands over a Fact list iff the Year and the
\* Period/Month column are both found and at least one Fact was produced;
\* without a required column it fails with the missing-column error, with
\* zero Facts with the empty-dataset error, and in both cases no Facts of
\* the file reach rows.
C23_NormalizeReturnsOrFails ==
  [][\A i \in 1..Len(loads) :
       NormalizedStep(i)
         => \A res \in {normalizeParsedRows(FileTable[loads[i].file])} :
              /\ res.ok <=> (ColumnsFound(FileTable[loads[i].file]) /\ Len(res.facts) > 0)
              /\ res.ok => /\ rows' = loads[i].file /\ error' = ""
                           /\ FactsOf(rows') = res.facts
              /\ ~res.ok
                   => /\ res.facts = <<>>
                      /\ rows' # loads[i].file
                      /\ error' =
                           IF ColumnsFound(FileTable[loads[i].file])
                           THEN "No valid rows found in CSV."
                           ELSE "Missing Year or Period/Month columns."]_vars

\* C23 witness: an upload whose rows all lack a usable year or month ended
\* with the empty-dataset error and no Facts.
C23_Witness ==
  /\ error = "No valid rows found in CSV." /\ rows = NoRows
  /\ nUploads >= 1 /\ \A i \in 1..Len(loads) : loads[i].kind # "upload"

\* (y1, m1) is an earlier month than (y2, m2).
Precedes(y1, m1, y2, m2) == y1 < y2 \/ (y1 = y2 /\ m1 < m2)

\* The years the key arithmetic is checked on.
KeyYears == (-2..2) \cup (2022..2025)

\* The months of the Facts on display.
FactMonths == {<<Rows[i].Year, Rows[i].Month>> : i \in 1..Len(Rows)}

\* C24: the month key is strictly monotone in chronological order, decoding
\* a key returns the year and month it was made from, and after a hydrate
\* the month bounds are the earliest and the latest month of the Facts.
C24_MonthKeyOrderAndBounds ==
  /\ \A y1 \in KeyYears, y2 \in KeyYears : \A m1 \in 1..12, m2 \in 1..12 :
        ymToKey(y1, m1) < ymToKey(y2, m2) <=> Precedes(y1, m1, y2, m2)
  /\ \A ym \in FactMonths : KeyToYM(ymToKey(ym[1], ym[2])) = ym
  /\ rows # NoRows
       => /\ minMonthStr \in FactMonths /\ maxMonthStr \in FactMonths
          /\ \A ym \in FactMonths :
                /\ ~Precedes(ym[1], ym[2], minMonthStr[1], minMonthStr[2])
                /\ ~Precedes(maxMonthStr[1], maxMonthStr[2], ym[1], ym[2])

\* C25: the remembered range is the window that resulted from the last
\* explicit range operation (From change, To change, year pick, preset),
\* and its start is not after its end.
C25_UserRangeMirrorsWindow ==
  lastPick # <<>>
    => /\ <<userRangeRef.start, userRangeRef.end>> = lastPick
       /\ (keyFromStr(userRangeRef.start) # 0 /\ keyFromStr(userRangeRef.end) # 0)
            => keyFromStr(userRangeRef.start) <= keyFromStr(userRangeRef.end)

\* The selection is [ALL] or a non-empty set of branches without ALL.
SelectionWellFormed(sel) == sel # {} /\ (ALL \in sel => sel = {ALL})

\* A step that takes every selected branch out of an explicit selection
\* and puts no other branch in.
RemovesLastBranch ==
  /\ ALL \notin selectedBranches /\ selectedBranches' # selectedBranches
  /\ selectedBranches' \cap selectedBranches = {}
  /\ (selectedBranches' \ {ALL}) \subseteq selectedBranches

\* C26: the branch selection is never empty, ALL never stands next to an
\* explicit branch, and removing the last explicit branch yields [ALL].
C26_BranchSelectionInvariant ==
  /\ []SelectionWellFormed(selectedBranches)
  /\ [][RemovesLastBranch => selectedBranches' = {ALL}]_vars

\* C26 witness: an explicit selection of several branches, made with the
\* buttons or the multi-select, has been through the hydrate of a later
\* load and the effect has run.
C26_Witness ==
  /\ ALL \notin selectedBranches /\ Cardinality(selectedBranches) >= 2
  /\ rowsFrom > 2 /\ ~effectPending

\* The categories and branches of a Fact array, and its first two
\* categories in order of appearance.
FactCategories(facts) == {facts[i].Category : i \in 1..Len(facts)}
FactBranches(facts) == {facts[i].Branch : i \in 1..Len(facts)} \ {""}
FirstTwoCategories(facts) ==
  {c \in FactCategories(facts) :
     \E i \in 1..Len(facts) :
       /\ facts[i].Category = c
       /\ Cardinality({facts[j].Category : j \in 1..(i - 1)} \ {c}) <= 1}

\* The default picks for a Fact array: the configured default category of
\* a dataset when the array has it, else the first two categories.
DefaultPicks(facts) ==
  {IF defaultCategory[d] \in FactCategories(facts)
   THEN {defaultCategory[d]} ELSE FirstTwoCategories(facts) : d \in DatasetIds}

\* C27: right after a successful hydrate the selected categories are a
\* non-empty subset of the categories of the new Facts (the previous
\* selection restricted to them if that is non-empty, else the default
\* pick), and the branch selection is [ALL] or a non-empty subset of the
\* branches of the new Facts.
C27_HydrateKeepsSelectionsValid ==
  [][HydrateStep
       => \A facts \in {FactsOf(rows')} :
            /\ selectedCategories' # {}
            /\ selectedCategories' \subseteq FactCategories(facts)
            /\ IF selectedCategories \cap FactCategories(facts) # {}
               THEN selectedCategories' = selectedCategories \cap FactCategories(facts)
               ELSE selectedCategories' \in DefaultPicks(facts)
            /\ \/ selectedBranches' = {ALL}
               \/ /\ selectedBranches' # {}
                  /\ selectedBranches' \subseteq FactBranches(facts)]_vars

\* C27 witness: a swap to a dataset that has none of the categories
\* selected before has just hydrated; the default category is selected
\* and the explicit branch selection was kept.
C27_Witness ==
  /\ rows = "historical_sales.csv" /\ rowsFrom > 2 /\ effectPending
  /\ selectedCategories = {"Total Equipment"} /\ selectedBranches = {"215"}

\* The series the auto-zoom effect reads in this state and the window it
\* would set, <<>> when it would return early.
SourceNow ==
  IF metric = "r12"
  THEN r12Data(rows, selectedBranches, selectedCategories, dateStart, dateEnd)
  ELSE IF metric = "r12Value"
  THEN r12ValueData(rows, selectedBranches, selectedCategories, dateStart, dateEnd)
  ELSE <<>>
TargetNow ==
  AutoZoomTarget(metric, SourceNow, selectedCategories, userRangeRef.touched,
                 minMonthStr, maxMonthStr)

\* A step of the auto-zoom effect that changes the window.
AutoFitStep ==
  /\ effectPending /\ WindowChanged
  /\ UNCHANGED <<rows, metric, selectedCategories, selectedBranches, userRangeRef>>

\* C28: after a step of auto-fit that changed the window, auto-fit over the
\* rolling series recomputed for the new window chooses the same window:
\* the cycle of recomputing and auto-fitting stops after one window change.
C28_AutoFitStabilizes ==
  [][AutoFitStep => TargetNow' = <<dateStart', dateEnd'>>]_vars

\* C28 witness: auto-fit has narrowed the window of an untouched range
\* under the rolling growth metric, the effect has run again and is idle.
C28_Witness ==
  /\ metric = "r12" /\ ~userRangeRef.touched /\ ~effectPending /\ rows # NoRows
  /\ <<dateStart, dateEnd>> # <<minMonthStr, maxMonthStr>>
  /\ TargetNow = <<dateStart, dateEnd>>

\* The month keys of the rows of the series read by the effect that carry
\* a number for a selected category.
NumericKeys ==
  {ymToKey(SourceNow[i].Year, SourceNow[i].Month) :
     i \in {j \in 1..Len(SourceNow) :
              \E c \in selectedCategories : SourceNow[j].vals[c] # <<>>}}

ChartColumnSum(chart, c) ==
  SumSeq([k \in 1..Len(chart) |-> IF c \in chart[k].has THEN chart[k].sum[c] ELSE 0],
         Len(chart))

\* C30: for the Facts, branch selection, window and selected categories of
\* the state, the value view summed over its rows gives, for every selected
\* category, the per-category total of the branch summary.
C30_ValueViewAgreesWithBranchSummary ==
  (rows # NoRows /\ selectedCategories # {})
    => \A chart \in {ChartNow} : \A summary \in {SummaryNow} :
         \A c \in selectedCategories :
           ChartColumnSum(chart, c) = summary.totals[c]

\* C30 witness: explicit branches and two categories under a window the
\* user moved inside the history; the view has several rows and the totals
\* of both categories are not zero.
C30_Witness ==
  /\ rows # NoRows /\ ALL \notin selectedBranches /\ userRangeRef.touched
  /\ Cardinality(selectedCategories) = 2
  /\ HasRange(dateStart, dateEnd) /\ keyFromStr(dateStart) > keyFromStr(minMonthStr)
  /\ \E chart \in {ChartNow} : \E summary \in {SummaryNow} :
       /\ Len(chart) >= 3
       /\ \A c \in selectedCategories :
            summary.totals[c] # 0 /\ ChartColumnSum(chart, c) = summary.totals[c]

====
